---- MODULE Spec2Model ----
(***************************************************************************)
(* A model of the static-site generator of build.ts.                       *)
(*                                                                         *)
(* Text is a sequence of tokens.  A token of the markdown input is one     *)
(* character; a token written by the converter is one literal chunk of     *)
(* the HTML it emits ("<h1>", "<img src=\"", ...), cut so that every       *)
(* character a later regular expression of the pipeline looks at (the "_"  *)
(* of target="_blank", a trailing ">") is a token of its own or the end of *)
(* a token.  The input alphabet holds no "<", so input never forms a tag.  *)
(* The backquote character is written as the token "BT".                   *)
(***************************************************************************)
EXTENDS Integers, Sequences, FiniteSets, TLC

VARIABLES
    markdown,      \* the document handed to SimpleMarkdownParser.parse
    htmlFile,      \* contents of <sourceDir>/f.html, or the token NoFile
    outputPath,    \* the outputPath argument, as a sequence of path segments
    result,        \* the string returned by the last parse call
    prevResult,    \* the string returned by the call before it
    calls,         \* number of parse calls made on this document
    imagesToCopy,  \* SimpleMarkdownParser.imagesToCopy
    site,          \* the content tree: posts, projects, galleries
    dist,          \* the output tree below dist/
    feed,          \* the items of dist/feed.xml: link and pubDate
    now,           \* the system clock, in ticks
    builds,        \* completed runs of the build so far
    aborts,        \* runs of the build ended by an uncaught exception
    edits,         \* changes made to the content tree so far
    deleted,       \* paths the orphan sweep of the last build removed
    touched,       \* paths, from the project root, the last build wrote or removed
    lastBuilt,     \* the content tree the last build read
    prevBuilt,     \* the content tree the build before it read
    request,       \* the path of the last request the file server took
    response,      \* its answer: the status and the file of dist/ sent
    prevFeed,      \* the items of feed.xml before the last build
    source,        \* process-photos.ts: its arguments and the source directory
    magick,        \* process-photos.ts: whether ImageMagick is installed
    exitCode,      \* process-photos.ts: the exit status, -1 before it has run
    storedTheme,   \* script.js: localStorage item 'theme', "" when there is none
    dataTheme,     \* script.js: attribute data-theme of <html>, "" before the script ran
    systemPrefersDark, \* script.js: matchMedia('(prefers-color-scheme: dark)').matches
    menuActive,    \* script.js: class active of #nav-toggle and #nav-menu
    loads,         \* script.js: page loads so far
    clicks,        \* script.js: clicks on a theme toggle so far
    yamlContent,   \* the lines of the document handed to SimpleYamlParser.parseSimple
    parsedMeta     \* whether parseSimple has returned, and the mapping it returned

importVars == <<source, magick, exitCode>>
themeVars == <<storedTheme, dataTheme, systemPrefersDark, menuActive, loads, clicks>>
yamlVars == <<yamlContent, parsedMeta>>
toolVars == <<importVars, themeVars, yamlVars>>

vars == <<markdown, htmlFile, outputPath, result, prevResult, calls, imagesToCopy,
          site, dist, feed, now, builds, aborts, edits, deleted, lastBuilt, prevBuilt,
          prevFeed, request, response, touched, toolVars>>

-----------------------------------------------------------------------------
(* Strings *)

NL == "\n"
\* The backquote character (a TLA+ string cannot hold one).
BT == "BT"

Min(S) == CHOOSE k \in S : \A j \in S : k <= j

\* String.prototype.indexOf(tok, from) on tokens, 1-based; 0 when absent.
IndexOf(s, tok, from) ==
    LET K == {k \in from..Len(s) : s[k] = tok}
    IN  IF K = {} THEN 0 ELSE Min(K)

Includes(s, tok) == \E k \in 1..Len(s) : s[k] = tok

RECURSIVE Split(_)
\* s.split('\n')
Split(s) ==
    LET k == IndexOf(s, NL, 1)
    IN  IF k = 0 THEN <<s>>
        ELSE <<SubSeq(s, 1, k - 1)>> \o Split(SubSeq(s, k + 1, Len(s)))

RECURSIVE Join(_)
\* lines.join('\n')
Join(lines) ==
    IF Len(lines) = 0 THEN <<>>
    ELSE IF Len(lines) = 1 THEN lines[1]
    ELSE lines[1] \o <<NL>> \o Join(Tail(lines))

\* Index of the first line terminator at or after `from`, or Len(s)+1:
\* the limit of what "." can match from there.
LineEnd(s, from) ==
    LET k == IndexOf(s, NL, from)
    IN  IF k = 0 THEN Len(s) + 1 ELSE k

\* The token s[i], or a token that equals nothing when i is out of range.
At(s, i) == IF i >= 1 /\ i <= Len(s) THEN s[i] ELSE "<eof>"

\* Array.prototype.map over the lines of s: split('\n'), f, join('\n') is
\* written out per pass below, as TLA+ has no first-class functions on
\* operators.

\* Map.prototype.set on an insertion-ordered map, held as a sequence of
\* [key, val] records: an existing key keeps its place and takes the value.
MapSet(m, k, v) ==
    IF \E x \in 1..Len(m) : m[x].key = k
    THEN [x \in 1..Len(m) |-> IF m[x].key = k THEN [key |-> k, val |-> v] ELSE m[x]]
    ELSE Append(m, [key |-> k, val |-> v])

-----------------------------------------------------------------------------
(* SimpleMarkdownParser.parse: the passes, in the order of the source *)

\* The opaque token `ƒ¶ƒ¶ƒ¶<KIND>${Date.now()}X${Math.random()...}ƒ¶ƒ¶ƒ¶`.
\* `stamp` stands for the pair (clock value, random suffix).
Placeholder(kind, stamp) == "ƒ¶ƒ¶ƒ¶" \o kind \o ToString(stamp) \o "ƒ¶ƒ¶ƒ¶"

HOpen(n)  == <<"<h1>", "<h2>", "<h3>", "<h4>">>[n]
HClose(n) == <<"</h1>", "</h2>", "</h3>", "</h4>">>[n]

\* One line under /^#{n} (.+)$/gm -> '<hn>$1</hn>'.
HeadingLine(line, n) ==
    IF /\ Len(line) >= n + 2
       /\ \A k \in 1..n : line[k] = "#"
       /\ line[n + 1] = " "
    THEN <<HOpen(n)>> \o SubSeq(line, n + 2, Len(line)) \o <<HClose(n)>>
    ELSE line

\* .replace(/^#{n} (.+)$/gm, '<hn>$1</hn>')
Heading(s, n) ==
    LET lines == Split(s)
    IN  Join([k \in 1..Len(lines) |-> HeadingLine(lines[k], n)])

Headings(s) == Heading(Heading(Heading(Heading(s, 1), 2), 3), 4)

\* src.replace(/["']/g, '')
CleanSrc(src) == SelectSeq(src, LAMBDA t : t # "\"" /\ t # "'")

\* path.basename: the part after the last "/", trailing slashes dropped.
RECURSIVE Basename(_)
Basename(p) ==
    IF Len(p) > 1 /\ p[Len(p)] = "/" THEN Basename(SubSeq(p, 1, Len(p) - 1))
    ELSE LET K == {k \in 1..Len(p) : p[k] = "/"}
         IN  IF K = {} \/ Len(p) <= 1 THEN p
             ELSE SubSeq(p, (CHOOSE k \in K : \A j \in K : j <= k) + 1, Len(p))

\* path.extname: from the last "." of the basename, "" when there is none or
\* when it is the basename's first character.
Extname(p) ==
    LET b == Basename(p)
        K == {k \in 1..Len(b) : b[k] = "."}
        d == IF K = {} THEN 0 ELSE CHOOSE k \in K : \A j \in K : j <= k
    IN  IF d <= 1 THEN <<>> ELSE SubSeq(b, d, Len(b))

\* String.prototype.toLowerCase
UpperCase == <<"A", "B", "C", "D", "E", "F", "G", "H", "I", "J", "K", "L", "M",
               "N", "O", "P", "Q", "R", "S", "T", "U", "V", "W", "X", "Y", "Z">>
LowerCase == <<"a", "b", "c", "d", "e", "f", "g", "h", "i", "j", "k", "l", "m",
               "n", "o", "p", "q", "r", "s", "t", "u", "v", "w", "x", "y", "z">>
ToLowerCase(p) ==
    [k \in 1..Len(p) |->
        IF \E n \in 1..26 : UpperCase[n] = p[k]
        THEN LowerCase[CHOOSE n \in 1..26 : UpperCase[n] = p[k]]
        ELSE p[k]]

\* The one HTML fragment file the model puts in the source directory.
HtmlName == <<"f", ".", "h", "t", "m", "l">>
NoFile == <<"<no file>">>
Unreadable == <<"<unreadable>">>

\* '../'.repeat(relativeDepth), relativeDepth = outputPath.split('/').length - 2
RECURSIVE Repeat(_, _)
Repeat(tok, n) == IF n <= 0 THEN <<>> ELSE <<tok>> \o Repeat(tok, n - 1)

RelativeDepth(path) == Len(path) - 2

\* The callback of the image pass for one match: what it returns and what it
\* adds to htmlBlockPlaceholders and imagesToCopy.  st carries text (the
\* output so far), the three placeholder maps html, code and inline, copies
\* (the records pushed to imagesToCopy) and n (placeholders created so far).
ImageCallback(alt, src, st, file, path, stamps) ==
    LET cleanSrc == CleanSrc(src)
        rel == SubSeq(cleanSrc, 3, Len(cleanSrc))
        imageName == Basename(rel)
        relativePath == Repeat("../", RelativeDepth(path)) \o <<"assets/">> \o imageName
    IN  IF Len(cleanSrc) >= 2 /\ cleanSrc[1] = "." /\ cleanSrc[2] = "/"
        THEN IF ToLowerCase(Extname(rel)) = <<".", "h", "t", "m", "l">>
             THEN IF rel = HtmlName /\ file # NoFile
                  THEN IF file # Unreadable
                       THEN LET ph == Placeholder("HTMLBLOCK", stamps[st.n + 1])
                            IN  [st EXCEPT !.text = @ \o <<ph>>,
                                           !.html = MapSet(@, ph, file),
                                           !.n = @ + 1]
                       ELSE [st EXCEPT !.text = @ \o <<"<!-- Error: Could not include HTML file: ">>
                                                  \o rel \o <<" -->">>]
                  ELSE [st EXCEPT !.text = @ \o <<"<!-- Error: HTML file not found: ">>
                                             \o rel \o <<" -->">>]
             ELSE [st EXCEPT !.text = @ \o <<"<img src=\"">> \o relativePath
                                        \o <<"\" alt=\"">> \o alt \o <<"\">">>,
                             !.copies = Append(@, [source |-> <<"sourceDir/">> \o rel,
                                                   dest |-> <<"dist/assets/">> \o imageName,
                                                   relativePath |-> relativePath])]
        ELSE [st EXCEPT !.text = @ \o <<"<img src=\"">> \o cleanSrc
                                   \o <<"\" alt=\"">> \o alt \o <<"\">">>]

\* End of the match of /!\[([^\]]*)\]\(([^)]+)\)/ that starts at i, as
\* <<index of "]", index of ")">>, or <<0, 0>>.
ImageMatch(s, i) ==
    IF At(s, i) = "!" /\ At(s, i + 1) = "["
    THEN LET r == IndexOf(s, "]", i + 2)
         IN  IF r > 0 /\ At(s, r + 1) = "("
             THEN LET c == IndexOf(s, ")", r + 2)
                  IN  IF c >= r + 3 THEN <<r, c>> ELSE <<0, 0>>
             ELSE <<0, 0>>
    ELSE <<0, 0>>

RECURSIVE ImagesFrom(_, _, _, _, _, _)
ImagesFrom(s, i, st, file, path, stamps) ==
    IF i > Len(s) THEN st
    ELSE LET m == ImageMatch(s, i)
         IN  IF m[2] > 0
             THEN ImagesFrom(s, m[2] + 1,
                      ImageCallback(SubSeq(s, i + 2, m[1] - 1),
                                    SubSeq(s, m[1] + 2, m[2] - 1),
                                    st, file, path, stamps),
                      file, path, stamps)
             ELSE ImagesFrom(s, i + 1, [st EXCEPT !.text = Append(@, s[i])],
                             file, path, stamps)

\* .replace(/!\[([^\]]*)\]\(([^)]+)\)/g, (match, alt, src) => ...)
Images(s, file, path, stamps) ==
    ImagesFrom(s, 1, [text |-> <<>>, html |-> <<>>, code |-> <<>>, inline |-> <<>>,
                      copies |-> <<>>, n |-> 0],
               file, path, stamps)


\* Start of the closing fence of /```([\s\S]*?)```/ for a match starting at
\* i, or 0: the first "```" at or after i + 3.
FenceMatch(s, i) ==
    IF At(s, i) = BT /\ At(s, i + 1) = BT /\ At(s, i + 2) = BT
    THEN LET J == {j \in (i + 3)..(Len(s) - 2) :
                      s[j] = BT /\ s[j + 1] = BT /\ s[j + 2] = BT}
         IN  IF J = {} THEN 0 ELSE Min(J)
    ELSE 0

RECURSIVE FencedFrom(_, _, _, _)
FencedFrom(s, i, st, stamps) ==
    IF i > Len(s) THEN st
    ELSE LET j == FenceMatch(s, i)
         IN  IF j > 0
             THEN LET ph == Placeholder("CODEBLOCK", stamps[st.n + 1])
                  IN  FencedFrom(s, j + 3,
                          [st EXCEPT !.text = Append(@, ph),
                                     !.code = MapSet(@, ph, <<"<pre>", "<code>">>
                                                  \o SubSeq(s, i + 3, j - 1)
                                                  \o <<"</code>", "</pre>">>),
                                     !.n = @ + 1],
                          stamps)
             ELSE FencedFrom(s, i + 1, [st EXCEPT !.text = Append(@, s[i])], stamps)

\* .replace(/```([\s\S]*?)```/g, (match, content) => ...)
FencedCode(st, stamps) == FencedFrom(st.text, 1, [st EXCEPT !.text = <<>>], stamps)

\* Index of the closing backquote of /`([^`]+)`/ for a match starting at i,
\* or 0.
InlineMatch(s, i) ==
    IF At(s, i) = BT /\ i + 1 <= Len(s) /\ s[i + 1] # BT
    THEN IndexOf(s, BT, i + 2)
    ELSE 0

RECURSIVE InlineFrom(_, _, _, _)
InlineFrom(s, i, st, stamps) ==
    IF i > Len(s) THEN st
    ELSE LET j == InlineMatch(s, i)
         IN  IF j > 0
             THEN LET ph == Placeholder("INLINECODE", stamps[st.n + 1])
                  IN  InlineFrom(s, j + 1,
                          [st EXCEPT !.text = Append(@, ph),
                                     !.inline = MapSet(@, ph, <<"<code>">>
                                                    \o SubSeq(s, i + 1, j - 1)
                                                    \o <<"</code>">>),
                                     !.n = @ + 1],
                          stamps)
             ELSE InlineFrom(s, i + 1, [st EXCEPT !.text = Append(@, s[i])], stamps)

\* .replace(/`([^`]+)`/g, (match, content) => ...)
InlineCode(st, stamps) == InlineFrom(st.text, 1, [st EXCEPT !.text = <<>>], stamps)

\* End of the match of /\[([^\]]+)\]\(([^)]+)\)/ that starts at i, as
\* <<index of "]", index of ")">>, or <<0, 0>>.
LinkMatch(s, i) ==
    IF At(s, i) = "["
    THEN LET r == IndexOf(s, "]", i + 1)
         IN  IF r >= i + 2 /\ At(s, r + 1) = "("
             THEN LET c == IndexOf(s, ")", r + 2)
                  IN  IF c >= r + 3 THEN <<r, c>> ELSE <<0, 0>>
             ELSE <<0, 0>>
    ELSE <<0, 0>>

RECURSIVE LinksFrom(_, _, _)
LinksFrom(s, i, out) ==
    IF i > Len(s) THEN out
    ELSE LET m == LinkMatch(s, i)
         IN  IF m[2] > 0
             THEN LinksFrom(s, m[2] + 1,
                      out \o <<"<a href=\"">> \o SubSeq(s, m[1] + 2, m[2] - 1)
                          \o <<"\" target=\"", "_", "blank\">">>
                          \o SubSeq(s, i + 1, m[1] - 1) \o <<"</a>">>)
             ELSE LinksFrom(s, i + 1, Append(out, s[i]))

\* .replace(/\[([^\]]+)\]\(([^)]+)\)/g, '<a href="$2" target="_blank">$1</a>')
Links(s) == LinksFrom(s, 1, <<>>)

\* Start of the closing marker of /MM(.+?)MM/ (w = 2) or /M(.+?)M/ (w = 1)
\* for a match starting at i, or 0: the nearest closing marker that leaves
\* at least one character and stays on the line.
EmphasisMatch(s, i, mark, w) ==
    IF \A k \in 0..(w - 1) : At(s, i + k) = mark
    THEN LET e == LineEnd(s, i + w)
             J == {j \in (i + w + 1)..(e - w) : \A k \in 0..(w - 1) : s[j + k] = mark}
         IN  IF J = {} THEN 0 ELSE Min(J)
    ELSE 0

RECURSIVE EmphasisFrom(_, _, _, _, _, _, _)
EmphasisFrom(s, i, out, mark, w, open, close) ==
    IF i > Len(s) THEN out
    ELSE LET j == EmphasisMatch(s, i, mark, w)
         IN  IF j > 0
             THEN EmphasisFrom(s, j + w,
                      out \o <<open>> \o SubSeq(s, i + w, j - 1) \o <<close>>,
                      mark, w, open, close)
             ELSE EmphasisFrom(s, i + 1, Append(out, s[i]), mark, w, open, close)

\* .replace(/\*\*(.+?)\*\*/g, '<strong>$1</strong>')
BoldStar(s) == EmphasisFrom(s, 1, <<>>, "*", 2, "<strong>", "</strong>")
\* .replace(/__(.+?)__/g, '<strong>$1</strong>')
BoldUnderscore(s) == EmphasisFrom(s, 1, <<>>, "_", 2, "<strong>", "</strong>")
\* .replace(/\*(.+?)\*/g, '<em>$1</em>')
ItalicStar(s) == EmphasisFrom(s, 1, <<>>, "*", 1, "<em>", "</em>")
\* .replace(/_(.+?)_/g, '<em>$1</em>')
ItalicUnderscore(s) == EmphasisFrom(s, 1, <<>>, "_", 1, "<em>", "</em>")

Emphasis(s) == ItalicUnderscore(ItalicStar(BoldUnderscore(BoldStar(s))))

Digits == {"0", "1", "2", "3", "4", "5", "6", "7", "8", "9"}

\* One line under /^> (.+)$/gm.
BlockquoteLine(line) ==
    IF Len(line) >= 3 /\ line[1] = ">" /\ line[2] = " "
    THEN <<"<blockquote-line>">> \o SubSeq(line, 3, Len(line)) \o <<"</blockquote-line>">>
    ELSE line

\* One line under /^- (.+)$/gm.
DashItemLine(line) ==
    IF Len(line) >= 3 /\ line[1] = "-" /\ line[2] = " "
    THEN <<"<li>">> \o SubSeq(line, 3, Len(line)) \o <<"</li>">>
    ELSE line

\* One line under /^(\d+)\. (.+)$/gm -> '<li>$2</li>'.
NumberItemLine(line) ==
    LET N == {n \in 1..Len(line) : \A k \in 1..n : line[k] \in Digits}
        d == IF N = {} THEN 0 ELSE CHOOSE n \in N : \A m \in N : m <= n
    IN  IF d >= 1 /\ Len(line) >= d + 3 /\ line[d + 1] = "." /\ line[d + 2] = " "
        THEN <<"<li>">> \o SubSeq(line, d + 3, Len(line)) \o <<"</li>">>
        ELSE line

Whitespace == {" ", "\t", "\r"}

\* line => line.trim() ? `<p>${line}</p>` : ''
ParagraphLine(line) ==
    IF \E k \in 1..Len(line) : line[k] \notin Whitespace
    THEN <<"<p>">> \o line \o <<"</p>">>
    ELSE <<>>

\* The three line-anchored replaces and the paragraph map, line by line:
\* .replace(/^> (.+)$/gm, ..).replace(/^- (.+)$/gm, ..)
\* .replace(/^(\d+)\. (.+)$/gm, ..).split('\n').map(..).join('\n')
BlockLines(s) ==
    LET lines == Split(s)
    IN  Join([k \in 1..Len(lines) |->
                ParagraphLine(NumberItemLine(DashItemLine(BlockquoteLine(lines[k]))))])

\* Tokens whose last character is ">".
EndsWithGt(t) ==
    t \in {">", "\">", "blank\">", " -->", "<p>", "</p>", "</a>",
           "<h1>", "<h2>", "<h3>", "<h4>", "</h1>", "</h2>", "</h3>", "</h4>",
           "<strong>", "</strong>", "<em>", "</em>", "<li>", "</li>",
           "<blockquote-line>", "</blockquote-line>", "<pre>", "</pre>",
           "<code>", "</code>", "<ul>", "</ul>", "<br>",
           "<blockquote>", "</blockquote>", "<div>", "</div>"}

\* Tokens that start with "<h" and a digit 1..6 and ">"; with "</h"...
HOpens  == {"<h1>", "<h2>", "<h3>", "<h4>"}
HCloses == {"</h1>", "</h2>", "</h3>", "</h4>"}

RECURSIVE UnwrapOpenFrom(_, _, _, _)
UnwrapOpenFrom(s, i, out, nexts) ==
    IF i > Len(s) THEN out
    ELSE IF s[i] = "<p>" /\ At(s, i + 1) \in nexts
         THEN UnwrapOpenFrom(s, i + 2, Append(out, s[i + 1]), nexts)
         ELSE UnwrapOpenFrom(s, i + 1, Append(out, s[i]), nexts)

\* .replace(/<p><X/g, '<X'): drops a "<p>" that stands right before a token
\* of `nexts`.
UnwrapOpen(s, nexts) == UnwrapOpenFrom(s, 1, <<>>, nexts)

RECURSIVE UnwrapCloseFrom(_, _, _, _)
UnwrapCloseFrom(s, i, out, prevs) ==
    IF i > Len(s) THEN out
    ELSE IF At(s, i + 1) = "</p>" /\ (prevs = {} => EndsWithGt(s[i]))
                                  /\ (prevs # {} => s[i] \in prevs)
         THEN UnwrapCloseFrom(s, i + 2, Append(out, s[i]), prevs)
         ELSE UnwrapCloseFrom(s, i + 1, Append(out, s[i]), prevs)

\* .replace(/X><\/p>/g, 'X>'): drops a "</p>" that stands right after a
\* token of `prevs`; with prevs = {}, after any token ending in ">"
\* (.replace(/><\/p>/g, '>')).
UnwrapClose(s, prevs) == UnwrapCloseFrom(s, 1, <<>>, prevs)

\* The ten unwrapping replaces that follow the paragraph map.
Unwrap(s) ==
    LET a == UnwrapOpen(s, HOpens)
        b == UnwrapClose(a, HCloses)
        c == UnwrapOpen(b, {"<img src=\""})
        d == UnwrapClose(c, {})
        e == UnwrapOpen(d, {"<pre>"})
        f == UnwrapClose(e, {"</pre>"})
        g == UnwrapOpen(f, {"<blockquote-line>"})
        h == UnwrapClose(g, {"</blockquote-line>"})
        k == UnwrapOpen(h, {"<li>"})
    IN  UnwrapClose(k, {"</li>"})

\* The replacement patterns of String.prototype.replace (GetSubstitution)
\* for a pattern without capture groups: $$, $&, $` and $'.
RECURSIVE GetSubstitution(_, _, _, _, _)
GetSubstitution(repl, i, matched, before, after) ==
    IF i > Len(repl) THEN <<>>
    ELSE IF repl[i] = "$" /\ At(repl, i + 1) = "$"
         THEN <<"$">> \o GetSubstitution(repl, i + 2, matched, before, after)
    ELSE IF repl[i] = "$" /\ At(repl, i + 1) = "&"
         THEN matched \o GetSubstitution(repl, i + 2, matched, before, after)
    ELSE IF repl[i] = "$" /\ At(repl, i + 1) = BT
         THEN before \o GetSubstitution(repl, i + 2, matched, before, after)
    ELSE IF repl[i] = "$" /\ At(repl, i + 1) = "'"
         THEN after \o GetSubstitution(repl, i + 2, matched, before, after)
    ELSE <<repl[i]>> \o GetSubstitution(repl, i + 1, matched, before, after)

\* s.replace(tok, repl) with a string pattern: the first occurrence only.
ReplaceFirst(s, tok, repl) ==
    LET k == IndexOf(s, tok, 1)
    IN  IF k = 0 THEN s
        ELSE SubSeq(s, 1, k - 1)
             \o GetSubstitution(repl, 1, <<tok>>, SubSeq(s, 1, k - 1), SubSeq(s, k + 1, Len(s)))
             \o SubSeq(s, k + 1, Len(s))

RECURSIVE ReplaceAllFrom(_, _, _, _)
ReplaceAllFrom(s, i, tok, repl) ==
    IF i > Len(s) THEN <<>>
    ELSE IF s[i] = tok
         THEN GetSubstitution(repl, 1, <<tok>>, SubSeq(s, 1, i - 1), SubSeq(s, i + 1, Len(s)))
              \o ReplaceAllFrom(s, i + 1, tok, repl)
         ELSE <<s[i]>> \o ReplaceAllFrom(s, i + 1, tok, repl)

\* s.replace(new RegExp(tok, 'g'), repl): every occurrence.
ReplaceAll(s, tok, repl) ==
    IF Includes(s, tok) THEN ReplaceAllFrom(s, 1, tok, repl) ELSE s

Last(q) == q[Len(q)]
SetLast(q, v) == [q EXCEPT ![Len(q)] = v]

\* One step of the first reduce: blockquote merging.
BlockquoteStep(acc, line) ==
    IF Includes(line, "<blockquote-line>")
    THEN LET acc1 == IF Len(acc) > 0 /\ ~Includes(Last(acc), "<blockquote>")
                     THEN Append(acc, <<"<blockquote>">>)
                     ELSE IF Len(acc) = 0 THEN Append(acc, <<"<blockquote>">>)
                     ELSE acc
             content == SelectSeq(line, LAMBDA t : t # "<blockquote-line>"
                                                  /\ t # "</blockquote-line>")
         IN  IF Last(acc1) = <<"<blockquote>">>
             THEN SetLast(acc1, <<"<blockquote>">> \o content)
             ELSE SetLast(acc1, Last(acc1) \o <<"<br>">> \o content)
    ELSE IF /\ Len(acc) > 0
            /\ At(Last(acc), 1) = "<blockquote>"
            /\ At(Last(acc), Len(Last(acc))) # "</blockquote>"
         THEN Append(SetLast(acc, Last(acc) \o <<"</blockquote>">>), line)
         ELSE Append(acc, line)

\* One step of the second reduce: list merging.
ListStep(acc, line) ==
    IF Includes(line, "<li>")
    THEN IF Len(acc) > 0 /\ (Includes(Last(acc), "<ul>") \/ Includes(Last(acc), "<ol>"))
         THEN SetLast(acc, ReplaceFirst(ReplaceFirst(Last(acc), "</ul>", line \o <<"</ul>">>),
                                        "</ol>", line \o <<"</ol>">>))
         ELSE Append(acc, <<"<ul>">> \o line \o <<"</ul>">>)
    ELSE Append(acc, line)

RECURSIVE ReduceBlockquote(_, _, _)
ReduceBlockquote(lines, k, acc) ==
    IF k > Len(lines) THEN acc
    ELSE ReduceBlockquote(lines, k + 1, BlockquoteStep(acc, lines[k]))

RECURSIVE ReduceList(_, _, _)
ReduceList(lines, k, acc) ==
    IF k > Len(lines) THEN acc
    ELSE ReduceList(lines, k + 1, ListStep(acc, lines[k]))

\* A map step that leaves every line as the reduces made it.
KeepLine(line) == line

\* line => unclosed blockquote ? line + '</blockquote>' : line
CloseBlockquote(line) ==
    IF At(line, 1) = "<blockquote>" /\ At(line, Len(line)) # "</blockquote>"
    THEN line \o <<"</blockquote>">>
    ELSE line

RECURSIVE RemoveEmptyFrom(_, _, _)
RemoveEmptyFrom(s, i, out) ==
    IF i > Len(s) THEN out
    ELSE IF s[i] = "<p>" /\ At(s, i + 1) = "</p>"
         THEN RemoveEmptyFrom(s, i + 2, out)
         ELSE RemoveEmptyFrom(s, i + 1, Append(out, s[i]))

\* .replace(/<p><\/p>/g, '')
RemoveEmptyParagraphs(s) == RemoveEmptyFrom(s, 1, <<>>)

\* .split('\n').reduce(..).reduce(..).map(..).join('\n').replace(/<p><\/p>/g, '')
MergeBlocks(s) ==
    LET merged == ReduceList(ReduceBlockquote(Split(s), 1, <<>>), 1, <<>>)
    IN  RemoveEmptyParagraphs(Join([k \in 1..Len(merged) |-> CloseBlockquote(merged[k])]))

RECURSIVE RestoreMap(_, _, _)
\* for (const [placeholder, content] of map) result = result.replace(..)
RestoreMap(s, m, k) ==
    IF k > Len(m) THEN s
    ELSE RestoreMap(ReplaceAll(s, m[k].key, m[k].val), m, k + 1)

\* The three restore loops and the closing <pre> cleanup.
Restore(s, st) ==
    LET a == RestoreMap(s, st.code, 1)
        b == RestoreMap(a, st.inline, 1)
        c == RestoreMap(b, st.html, 1)
    IN  UnwrapClose(UnwrapOpen(c, {"<pre>"}), {"</pre>"})

\* A converter that protects fenced blocks but not inline code spans.
ExtractedFencesOnly(md, file, path, stamps) ==
    FencedCode(Images(Headings(md), file, path, stamps), stamps)

\* The placeholders parse creates for this document: one per embedded HTML
\* file, fenced block and inline span, i.e. one draw of the clock and the
\* random generator each.
Extracted(md, file, path, stamps) ==
    LET img == Images(Headings(md), file, path, stamps)
    IN  InlineCode(FencedCode(img, stamps), stamps)

\* Number of placeholders one parse call creates for this document.
NumProtected(md, file, path) ==
    Extracted(md, file, path, [k \in 1..Len(md) |-> k]).n

\* parse(markdown, sourceDir, outputPath), given the values the clock and
\* the random generator return: stamps[k] goes into the k-th placeholder.
\* html is the returned string, copies what the call pushes to imagesToCopy.
parse(md, file, path, stamps) ==
    LET st == Extracted(md, file, path, stamps)
        body == MergeBlocks(Unwrap(BlockLines(Emphasis(Links(st.text)))))
    IN  [html |-> Restore(body, st), copies |-> st.copies]

-----------------------------------------------------------------------------
(* The converter as a state machine: documents and calls *)

\* Bounds of the model.
MaxLines == 3      \* lines of a document
MaxCalls == 2      \* parse calls made on one document
NumStamps == 2     \* distinct values of the (clock, random) pair

Stamps == 1..NumStamps

\* Documents of one to MaxLines lines taken from `lines`.
Docs(lines) ==
    {Join(d) : d \in UNION {[1..k -> lines] : k \in 1..MaxLines}}

\* Lines for the code-protection claims: a fence, a heading, emphasis
\* markers, inline code spans, an embedded HTML file.
CodeLines ==
    { <<BT, BT, BT>>,
      <<"#", " ", "x">>,
      <<BT, "*", "a", "*", BT>>,
      <<BT, "_", "_", "b", "_", "_", BT>>,
      <<BT, "$", "&", BT>>,
      <<"!", "[", "a", "]", "(", ".", "/", "f", ".", "h", "t", "m", "l", ")">> }

\* Lines for the emphasis-in-code claim.
EmphLines ==
    { <<BT, BT, BT>>,
      <<"*", "*", "n", "*", "*", " ", "_", "i", "_">>,
      <<BT, "*", "a", "*", "_", "_", "b", "_", "_", BT>>,
      <<"x", " ", "*", "y", "*">> }

\* Lines for the list claim.
ListLines ==
    { <<"-", " ", "a">>,
      <<"1", ".", " ", "b">>,
      <<"-", " ", "c", "$", BT>>,
      <<"x">>,
      <<>> }

\* Lines for the heading and paragraph claim.
HeadingLines ==
    { <<"#", " ", "T">>,
      <<"#", "#", " ", "S">>,
      <<"#", "#", "#", " ", "U">>,
      <<"#", "#", "#", "#", " ", "V">>,
      <<"B", " ", "*", "t", "*", ".">>,
      <<"B", " ", "*", "t", "*">>,
      <<>> }

\* Lines for the image and link claims.
ImageLines ==
    { <<"!", "[", "x", "]", "(", ".", "/", "p", "i", "c", ".", "j", "p", "g", ")">>,
      <<"!", "[", "x", "]", "(", ".", "/", "p", "/", "a", "_", "b", "_", "c", ".", "j", ")">>,
      <<"!", "[", "x", "]", "(", "h", ":", "/", "a", "*", "b", "*", ")">>,
      <<"[", "t", "]", "(", "u", "_", "v", "_", "w", ")">>,
      <<"[", "t", "]", "(", "u", ")">> }

\* Lines for the blockquote claim: quoted lines, a paragraph line, a list
\* item and the blank line.
QuoteLines ==
    { <<">", " ", "a">>,
      <<">", " ", "b", " ", "*", "e", "*">>,
      <<"x">>,
      <<"-", " ", "c">>,
      <<>> }

\* Contents of the embedded HTML file, when it exists.
HtmlContent == <<"<div>", "h", "</div>">>

\* The output paths build.ts passes for a page at the output root and for a
\* page one directory down.
RootPage == <<"dist", "index.html">>
PostPage == <<"dist", "updates", "post.html">>

\* The local file server has answered nothing yet.
NoRequest == [path |-> <<>>, slash |-> FALSE]
NoResponse == [status |-> 0, file |-> <<>>]
ServerIdle == request = NoRequest /\ response = NoResponse

\* process-photos.ts has not been started.
NoSource == [given |-> FALSE, exists |-> FALSE, files |-> <<>>]
ImporterIdle == source = NoSource /\ magick = FALSE /\ exitCode = -1

\* parseSimple has been handed nothing.
NotParsed == [returned |-> FALSE, result |-> <<>>]
YamlIdle == yamlContent = <<>> /\ parsedMeta = NotParsed

\* No page of the site is open in a browser.
BrowserIdle ==
    /\ storedTheme = "" /\ dataTheme = "" /\ systemPrefersDark = FALSE
    /\ menuActive = FALSE /\ loads = 0 /\ clicks = 0

\* Nothing but the site builder, the converter and the server is in use.
ToolsIdle == ImporterIdle /\ BrowserIdle /\ YamlIdle

\* No site is being built.
BuilderIdle ==
    /\ ServerIdle
    /\ site = [blog |-> <<>>, blogFiles |-> {}, projects |-> <<>>,
                  projectFiles |-> {}, photos |-> <<>>]
    /\ dist = [files |-> {}, dirs |-> {}, pages |-> <<>>]
    /\ feed = {}
    /\ now = 0
    /\ builds = 0
    /\ aborts = 0
    /\ edits = 0
    /\ deleted = {}
    /\ touched = {}
    /\ lastBuilt = site
    /\ prevBuilt = site
    /\ prevFeed = {}

InitParser(lines, files, paths) ==
    /\ BuilderIdle
    /\ ToolsIdle
    /\ markdown \in Docs(lines)
    /\ htmlFile \in files
    /\ outputPath \in paths
    /\ result = <<>>
    /\ prevResult = <<>>
    /\ calls = 0
    /\ imagesToCopy = <<>>

\* One call parser.parse(markdown, sourceDir, outputPath).
Parse ==
    /\ calls < MaxCalls
    /\ \E stamps \in [1..NumProtected(markdown, htmlFile, outputPath) -> Stamps] :
         LET r == parse(markdown, htmlFile, outputPath, stamps)
         IN  /\ result' = r.html
             /\ imagesToCopy' = imagesToCopy \o r.copies
    /\ prevResult' = result
    /\ calls' = calls + 1
    /\ UNCHANGED <<markdown, htmlFile, outputPath, site, dist, feed, now, builds, aborts,
                   edits, deleted, lastBuilt, prevBuilt, prevFeed, request, response,
                   touched, toolVars>>

NextParser == Parse

InitCode == InitParser(CodeLines, {NoFile, HtmlContent}, {PostPage})
SpecCode == InitCode /\ [][NextParser]_vars

InitEmph == InitParser(EmphLines, {NoFile}, {PostPage})
SpecEmph == InitEmph /\ [][NextParser]_vars

InitList == InitParser(ListLines, {NoFile}, {PostPage})
SpecList == InitList /\ [][NextParser]_vars

InitHeading == InitParser(HeadingLines, {NoFile}, {PostPage})
SpecHeading == InitHeading /\ [][NextParser]_vars

InitQuote == InitParser(QuoteLines, {NoFile}, {PostPage})
SpecQuote == InitQuote /\ [][NextParser]_vars

InitImage == InitParser(ImageLines, {NoFile}, {RootPage, PostPage})
SpecImage == InitImage /\ [][NextParser]_vars

-----------------------------------------------------------------------------
(* Dates *)

\* A value that is a Date object or undefined.  time counts clock ticks
\* since the epoch; a date string of the model is a decimal count of seconds.
Undefined   == [type |-> "undefined", time |-> 0]
InvalidDate == [type |-> "invalid", time |-> 0]
DateAt(t)   == [type |-> "date", time |-> t]

\* a || b where a is a Date or undefined: every Date object is truthy.
Or(a, b) == IF a # Undefined THEN a ELSE b

\* Bounds of the model of the site.
TicksPerSecond == 2   \* clock ticks in one second
MaxBuilds == 2        \* runs of the build
MaxEdits == 1         \* changes made to the content tree

\* The clock when the model starts, and the last second it can reach.
StartTime == 3 * TicksPerSecond + 1
MaxSeconds == (StartTime + MaxBuilds + MaxEdits) \div TicksPerSecond + 1

\* new Date(str): the date the string names, Invalid Date when it names none.
NewDate(str) ==
    IF \E n \in 0..MaxSeconds : ToString(n) = str
    THEN DateAt(TicksPerSecond * (CHOOSE n \in 0..MaxSeconds : ToString(n) = str))
    ELSE InvalidDate

\* Date.prototype.toUTCString: the date to the second.
ToUTCString(d) ==
    IF d.type = "date" THEN ToString(d.time \div TicksPerSecond) ELSE "Invalid Date"

\* A file date taken from the clock whatever the file.
ClockDate(stat, clock) == DateAt(clock)

\* getFileDate(filePath): the modification time, the clock when stat throws.
getFileDate(stat, clock) ==
    IF stat.ok THEN DateAt(stat.mtime) ELSE DateAt(clock)

-----------------------------------------------------------------------------
(* The output tree *)

\* The tree below dist/: its files and its directories, each the sequence of
\* names from dist down; <<>> is dist itself.  pages holds what the photo
\* viewer pages among the files say: the photo shown and the two links.
NoTree == [files |-> {}, dirs |-> {}, pages |-> <<>>]

IsPrefix(d, p) == Len(d) <= Len(p) /\ SubSeq(p, 1, Len(d)) = d

\* mkdirSync(d, { recursive: true })
MkDir(fs, d) == [fs EXCEPT !.dirs = @ \cup {SubSeq(d, 1, k) : k \in 0..Len(d)}]

\* writeFileSync(p, ..) and copyFileSync(.., p)
WriteFile(fs, p) == [fs EXCEPT !.files = @ \cup {p}]

\* readdirSync(d)
Entries(fs, d) ==
    {p \in fs.files \cup fs.dirs : Len(p) = Len(d) + 1 /\ IsPrefix(d, p)}

\* The characters of a name as one string.
RECURSIVE Concat(_)
Concat(toks) == IF toks = <<>> THEN "" ELSE Head(toks) \o Concat(Tail(toks))

EndsWith(s, suf) ==
    Len(s) >= Len(suf) /\ SubSeq(s, Len(s) - Len(suf) + 1, Len(s)) = suf

\* ensureDistDir, run by the constructor
ensureDistDir(fs) == MkDir(MkDir(fs, <<>>), <<"assets">>)

-----------------------------------------------------------------------------
(* Reading the content tree *)

\* A sidecar *.meta.yaml / meta.yaml as SimpleYamlParser.parseSimple reads
\* it: whether the file exists, whether it has a published_at key, its value.
NoSidecar == [exists |-> FALSE, dated |-> FALSE, published_at |-> ""]
Sidecar(value) == [exists |-> TRUE, dated |-> TRUE, published_at |-> value]

\* meta.published_at of a sidecar: parseSimple stores new Date(value).
PublishedAt(meta) ==
    IF meta.exists /\ meta.dated THEN NewDate(meta.published_at) ELSE Undefined

\* parsed.content.match(/_Last updated ([^_]+)_/): the captured group of the
\* first match, <<>> when there is none.  "Last updated " is one token.
LastUpdatedMatch(html) ==
    LET M == {i \in 1..Len(html) :
                 /\ html[i] = "_" /\ At(html, i + 1) = "Last updated "
                 /\ IndexOf(html, "_", i + 2) > i + 2}
    IN  IF M = {} THEN <<>>
        ELSE SubSeq(html, Min(M) + 2, IndexOf(html, "_", Min(M) + 2) - 1)

\* The record getBlogPosts makes of one post: parsed is what parseFile
\* returned, meta the post's sidecar.
BlogPost(slug, parsed, meta) ==
    LET publishedAt == PublishedAt(meta)
        m == LastUpdatedMatch(parsed.html)
        lastUpdated == IF m # <<>> THEN NewDate(Concat(m)) ELSE DateAt(0)
    IN  [slug |-> slug,
         content |-> parsed.html,
         copies |-> parsed.copies,
         lastUpdated |-> lastUpdated,
         publishedAt |-> Or(publishedAt, lastUpdated)]

\* getBlogPosts(): one record per content/blog/<slug>.md.  The post bodies
\* of the model hold no code, so parse draws nothing from the clock.
getBlogPosts(c) ==
    UNION { { BlogPost(slug, parsed, c.blog[slug].meta)
              : parsed \in {parse(c.blog[slug].body, NoFile,
                                  <<"dist", "updates", slug \o ".html">>, <<>>)} }
            : slug \in DOMAIN c.blog }

\* getProjects(): one record per content/projects/<slug>.md; dependencies
\* is <<>> when the sidecar lists none.  parseSimple returns an array for
\* a key followed by "- " lines and a string for a value written on the
\* key's own line: isString tells which.
getProjects(c) ==
    { [slug |-> slug, dependencies |-> c.projects[slug].dependencies,
       isString |-> c.projects[slug].inline]
      : slug \in DOMAIN c.projects }

\* project.dependencies.forEach(..) of cleanupOrphanedFiles: a string is
\* truthy and has no forEach, so the call throws a TypeError nothing catches.
ForEachThrows(c) == \E project \in getProjects(c) : project.isString

\* /\.(jpg|jpeg|png|gif|webp)$/i.test(file)
ImageExts ==
    { <<".", "j", "p", "g">>, <<".", "j", "p", "e", "g">>, <<".", "p", "n", "g">>,
      <<".", "g", "i", "f">>, <<".", "w", "e", "b", "p">> }
IsImageFile(file) == \E e \in ImageExts : EndsWith(ToLowerCase(file), e)

\* The characters of file names in the order of their UTF-16 code units.
CodeUnits ==
    <<".", "0", "1", "2", "3", "4", "5", "6", "7", "8", "9">> \o UpperCase \o <<"_">>
        \o LowerCase
CodeUnit(ch) == CHOOSE k \in 1..Len(CodeUnits) : CodeUnits[k] = ch

\* a < b in the order of Array.prototype.sort() without a comparator:
\* strings compared code unit by code unit, a proper prefix first.
RECURSIVE Less(_, _)
Less(a, b) ==
    IF b = <<>> THEN FALSE
    ELSE IF a = <<>> THEN TRUE
    ELSE IF a[1] = b[1] THEN Less(Tail(a), Tail(b))
    ELSE CodeUnit(a[1]) < CodeUnit(b[1])

\* Array.prototype.sort(), as an insertion sort.
RECURSIVE Insert(_, _)
Insert(sorted, name) ==
    IF sorted = <<>> THEN <<name>>
    ELSE IF Less(name, sorted[1]) THEN <<name>> \o sorted
    ELSE <<sorted[1]>> \o Insert(Tail(sorted), name)

\* A listing left in the order readdirSync returned it.
Unsorted(names) == names

RECURSIVE Sort(_)
Sort(names) ==
    IF names = <<>> THEN <<>>
    ELSE Insert(Sort(SubSeq(names, 1, Len(names) - 1)), names[Len(names)])

\* getPhotoGalleries(): one record per directory of content/photos that
\* holds at least one image; files is the directory in the order
\* readdirSync returns it.
getPhotoGalleries(c, clock) ==
    UNION { { [name |-> g,
               images |-> images,
               imageCount |-> Len(images),
               previewImage |-> images[1],
               publishedAt |-> Or(PublishedAt(c.photos[g].meta),
                                  getFileDate([ok |-> TRUE, mtime |-> c.photos[g].mtime],
                                              clock))]
              : images \in {Sort(SelectSeq(c.photos[g].files, IsImageFile))} }
            : g \in {h \in DOMAIN c.photos :
                        SelectSeq(c.photos[h].files, IsImageFile) # <<>>} }

\* getImageNameWithoutExt(filename) = basename(filename, extname(filename))
getImageNameWithoutExt(filename) ==
    LET b == Basename(filename)
        ext == Extname(filename)
    IN  IF ext # <<>> /\ Len(b) > Len(ext) /\ EndsWith(b, ext)
        THEN SubSeq(b, 1, Len(b) - Len(ext))
        ELSE b

\* dependency.startsWith('./') ? dependency.substring(2) : dependency
CleanDependency(dep) ==
    IF Len(dep) >= 2 /\ dep[1] = "." /\ dep[2] = "/" THEN SubSeq(dep, 3, Len(dep)) ELSE dep

-----------------------------------------------------------------------------
(* cleanupOrphanedFiles *)

\* The set expectedFiles that cleanupOrphanedFiles computes.
ExpectedFiles(c, clock) ==
    {<<"index.html">>, <<"about-this-site.html">>, <<"feed.xml">>,
     <<"styles.css">>, <<"script.js">>}
    \cup {<<"updates", "index.html">>}
    \cup {<<"updates", post.slug \o ".html">> : post \in getBlogPosts(c)}
    \cup {<<"projects", project.slug \o ".html">> : project \in getProjects(c)}
    \cup UNION {{<<"projects", Concat(Basename(CleanDependency(project.dependencies[k])))>>
                    : k \in 1..Len(project.dependencies)} : project \in getProjects(c)}
    \cup {<<"photos", "index.html">>}
    \cup {<<"photos", gallery.name, "index.html">> : gallery \in getPhotoGalleries(c, clock)}
    \cup UNION {{<<"photos", gallery.name, Concat(gallery.images[k])>>
                    : k \in 1..Len(gallery.images)}
                   : gallery \in getPhotoGalleries(c, clock)}
    \cup UNION {{<<"photos", gallery.name, Concat(getImageNameWithoutExt(image)) \o ".html">>
                    : image \in {gallery.images[k] : k \in 1..Len(gallery.images)}}
                   : gallery \in getPhotoGalleries(c, clock)}

\* A sweep that skips no directory.
SkipsNothing(entry) == FALSE

\* if (entry.name === 'assets') continue;
SkipsDirectory(entry) == entry[Len(entry)] = "assets"

RECURSIVE removeOrphanedFilesRecursive(_, _, _)
\* removeOrphanedFilesRecursive(dirPath, expectedFiles, relativePath), as the
\* set of paths it removes from the tree fs.  Of the entries of dirPath, a
\* file is removed when its path is not expected; a directory is skipped
\* when it is named assets, and otherwise swept and then removed when none
\* of its entries remains.
removeOrphanedFilesRecursive(fs, expectedFiles, dirPath) ==
    IF dirPath \notin fs.dirs THEN {}
    ELSE {entry \in Entries(fs, dirPath) \cap fs.files : entry \notin expectedFiles}
         \cup UNION { UNION { IF Entries(fs, entry) \subseteq inside
                               THEN inside \cup {entry} ELSE inside
                               : inside \in {removeOrphanedFilesRecursive(fs, expectedFiles, entry)} }
                      : entry \in {e \in Entries(fs, dirPath) \cap fs.dirs : ~SkipsDirectory(e)} }

\* cleanupOrphanedFiles(), as the set of paths it removes from the tree fs.
cleanupOrphanedFiles(fs, c, clock) ==
    IF <<>> \notin fs.dirs THEN {}
    ELSE UNION { removeOrphanedFilesRecursive(fs, expectedFiles, <<>>)
                 : expectedFiles \in {ExpectedFiles(c, clock)} }

\* The tree without the paths the calls of rmSync removed.
RemoveAll(fs, paths) ==
    [files |-> fs.files \ paths, dirs |-> fs.dirs \ paths,
     pages |-> [p \in DOMAIN fs.pages \ paths |-> fs.pages[p]]]

-----------------------------------------------------------------------------
(* The page builders, in the order build() calls them *)

\* buildHomepage(): writes dist/index.html.
buildHomepage(fs) == WriteFile(fs, <<"index.html">>)

\* buildBlogIndex()
buildBlogIndex(fs) == WriteFile(MkDir(fs, <<"updates">>), <<"updates", "index.html">>)

\* buildBlogPosts()
buildBlogPosts(fs, c) ==
    [fs EXCEPT !.files = @ \cup {<<"updates", post.slug \o ".html">> : post \in getBlogPosts(c)}]

\* copyProjectDependencies(projectSlug, dependencies), as the set of files
\* it writes: a dependency that exists below content/projects is copied to
\* dist/projects/<basename>.
copyProjectDependencies(c, dependencies) ==
    {<<"projects", Concat(Basename(CleanDependency(dependencies[k])))>>
        : k \in {j \in 1..Len(dependencies) :
                    Concat(CleanDependency(dependencies[j])) \in c.projectFiles}}

\* buildProjects(): the directory, then for each project its page and its
\* dependencies.
buildProjects(fs, c) ==
    [MkDir(fs, <<"projects">>) EXCEPT
        !.files = @ \cup {<<"projects", project.slug \o ".html">> : project \in getProjects(c)}
                    \cup UNION {copyProjectDependencies(c, project.dependencies)
                                   : project \in getProjects(c)}]

\* buildAboutPage()
buildAboutPage(fs) == WriteFile(fs, <<"about-this-site.html">>)

\* The href /photos/<gallery>/<image-stem> of a viewer page, as its segments.
PhotoRoute(gallery, image) ==
    <<"photos", gallery.name, Concat(getImageNameWithoutExt(image))>>

\* buildIndividualPhotoPage(gallery, image, currentIndex): the file it
\* writes and, of the page, the photo shown, data-current and the hrefs of
\* the previous and the next link.  currentIndex counts from 0.
buildIndividualPhotoPage(gallery, image, currentIndex) ==
    LET prevIndex == IF currentIndex > 0 THEN currentIndex - 1
                     ELSE Len(gallery.images) - 1
        nextIndex == IF currentIndex < Len(gallery.images) - 1 THEN currentIndex + 1
                     ELSE 0
    IN  [file |-> <<"photos", gallery.name,
                    Concat(getImageNameWithoutExt(image)) \o ".html">>,
         image |-> image,
         current |-> currentIndex,
         prev |-> PhotoRoute(gallery, gallery.images[prevIndex + 1]),
         next |-> PhotoRoute(gallery, gallery.images[nextIndex + 1])]

\* The viewer pages the forEach loops of buildPhotoGalleries write, in the
\* order of the loops within a gallery.
ViewerPages(galleries) ==
    UNION {{buildIndividualPhotoPage(gallery, gallery.images[i + 1], i)
               : i \in 0..(Len(gallery.images) - 1)} : gallery \in galleries}

\* The page a path holds after the pages `written` went to disk: the last
\* one written there.
LastWritten(written, p) ==
    CHOOSE w \in written :
        w.file = p /\ \A v \in written : v.file = p => v.current <= w.current

\* buildPhotoGalleries(galleries): for each gallery its directory, for each
\* of its images the copy and the viewer page, then the gallery index.
buildPhotoGalleries(fs, galleries) ==
    [fs EXCEPT
        !.dirs = @ \cup {<<"photos", gallery.name>> : gallery \in galleries},
        !.files = @ \cup UNION {{<<"photos", gallery.name, Concat(gallery.images[k])>>
                                    : k \in 1..Len(gallery.images)} : gallery \in galleries}
                    \cup {w.file : w \in ViewerPages(galleries)}
                    \cup {<<"photos", gallery.name, "index.html">> : gallery \in galleries},
        !.pages = [p \in DOMAIN @ \cup {w.file : w \in ViewerPages(galleries)} |->
                      IF \E w \in ViewerPages(galleries) : w.file = p
                      THEN LastWritten(ViewerPages(galleries), p) ELSE @[p]]]

\* buildPhotosIndex()
buildPhotosIndex(fs, c, clock) ==
    buildPhotoGalleries(WriteFile(MkDir(fs, <<"photos">>), <<"photos", "index.html">>),
                        getPhotoGalleries(c, clock))

\* baseUrl of generateRSSXML
BaseUrl == "https://jackratner.com"

\* loadExistingPubDates(): the map link -> Date read from dist/feed.xml,
\* empty when there is no such file; link.replace(baseUrl, '') cuts the
\* domain off each link.
loadExistingPubDates(fs, xml) ==
    IF <<"feed.xml">> \in fs.files
    THEN {[link |-> ReplaceFirst(item.link, BaseUrl, <<>>), date |-> NewDate(item.pubDate)]
             : item \in xml}
    ELSE {}

\* existingPubDates.get(url)
MapGet(pubDates, url) ==
    IF \E e \in pubDates : e.link = url
    THEN (CHOOSE e \in pubDates : e.link = url).date
    ELSE Undefined

\* One <item> of generateRSSXML: its link and its guid, the base URL and the
\* route as two tokens, and its pubDate string.
RssItem(url, pubDate) ==
    [link |-> <<BaseUrl>> \o url, guid |-> <<BaseUrl>> \o url, pubDate |-> ToUTCString(pubDate)]

\* buildRSSFeed(): the items written to dist/feed.xml.
buildRSSFeed(fs, xml, c, clock) ==
    LET existingPubDates == loadExistingPubDates(fs, xml)
    IN  { RssItem(<<"/blog/" \o post.slug>>,
                  Or(post.publishedAt,
                     Or(MapGet(existingPubDates, <<"/blog/" \o post.slug>>), DateAt(clock))))
            : post \in getBlogPosts(c) }
        \cup
        { RssItem(<<"/photos/" \o gallery.name>>,
                  Or(gallery.publishedAt,
                     Or(MapGet(existingPubDates, <<"/photos/" \o gallery.name>>),
                        DateAt(clock))))
            : gallery \in getPhotoGalleries(c, clock) }

\* buildStyles() and buildScript()
buildStyles(fs) == WriteFile(fs, <<"styles.css">>)
buildScript(fs) == WriteFile(fs, <<"script.js">>)

\* The records the parse calls of one build push to imagesToCopy.
QueuedImages(c) ==
    UNION {{post.copies[k] : k \in 1..Len(post.copies)} : post \in getBlogPosts(c)}

\* copyImages(): each queued image whose source exists is copied to its dest
\* below dist/assets.
copyImages(fs, c, queue) ==
    LET found == {image \in queue : Concat(Tail(image.source)) \in c.blogFiles}
    IN  IF found = {} THEN fs
        ELSE [MkDir(fs, <<"assets">>) EXCEPT
                 !.files = @ \cup {<<"assets", Concat(Tail(image.dest))>> : image \in found}]

\* build() from buildHomepage to buildPhotosIndex: the tree buildRSSFeed finds.
PagesBeforeFeed(fs, c, clock) ==
    buildPhotosIndex(
        buildAboutPage(
            buildProjects(
                buildBlogPosts(
                    buildBlogIndex(buildHomepage(fs)), c), c)), c, clock)

\* build() from the write of feed.xml to copyImages.
PagesFromFeed(fs, c) ==
    copyImages(buildScript(buildStyles(WriteFile(fs, <<"feed.xml">>))), c, QueuedImages(c))

-----------------------------------------------------------------------------
(* The site builder as a state machine: content edits and builds *)

\* The posts, projects and galleries the model draws the content tree from.
Slugs == {"a", "index"}
PlainBody == <<"#", " ", "T">>
ImageBody == <<"!", "[", "x", "]", "(", ".", "/", "p", ".", "j", ")">>
MarkedBody == <<"_", "Last updated ", "1", "_">>
SnakeBody == <<"!", "[", "x", "]", "(", ".", "/", "a", "_", "b", "_", "c", ".", "j", ")">>
PostMtime == 2 * TicksPerSecond + 1
Posts ==
    { [body |-> PlainBody, meta |-> NoSidecar, mtime |-> PostMtime],
      [body |-> MarkedBody, meta |-> NoSidecar, mtime |-> PostMtime],
      [body |-> ImageBody, meta |-> Sidecar("1"), mtime |-> PostMtime],
      [body |-> SnakeBody, meta |-> Sidecar("soon"), mtime |-> PostMtime] }

ProjectSlugs == {"pr"}
LibDependency == <<".", "/", "v", "/", "lib.js">>
Projects ==
    { [dependencies |-> <<>>, inline |-> FALSE],
      [dependencies |-> <<LibDependency>>, inline |-> FALSE],
      [dependencies |-> <<LibDependency>>, inline |-> TRUE] }

GalleryNames == {"g"}
PhotoX == <<"x", ".", "j", "p", "g">>
PhotoY == <<"y", ".", "P", "N", "G">>
PhotoXPng == <<"x", ".", "p", "n", "g">>
Notes  == <<"n", ".", "t", "x", "t">>
Galleries ==
    { [files |-> <<PhotoX, Notes>>, meta |-> NoSidecar, mtime |-> 2 * TicksPerSecond + 1],
      [files |-> <<PhotoY, PhotoX>>, meta |-> Sidecar("2"),
       mtime |-> 2 * TicksPerSecond + 1] }

\* The posts the model puts at a slug: any of them at "a", the plain one at
\* "index", the slug whose page shares its file with the blog index.
PostsAt(slug) ==
    IF slug = "index" THEN {post \in Posts : post.body = PlainBody} ELSE Posts

\* The functions from a subset of `keys` to `values`.
Partial(keys, values) == UNION {[D -> values] : D \in SUBSET keys}

Range(q) == {q[k] : k \in 1..Len(q)}

Without(f, k) == [x \in DOMAIN f \ {k} |-> f[x]]
With(f, k, v) == [x \in DOMAIN f \cup {k} |-> IF x = k THEN v ELSE f[x]]

EmptyContent ==
    [blog |-> <<>>, blogFiles |-> {}, projects |-> <<>>, projectFiles |-> {}, photos |-> <<>>]

\* An output tree left by an earlier version of the site: a page and a
\* shared image nothing refers to, an empty directory, and the pages of a
\* gallery that was named assets.
StaleTree ==
    [files |-> {<<"old.html">>, <<"assets", "old.j">>, <<"photos", "assets", "index.html">>},
     dirs |-> {<<>>, <<"assets">>, <<"tmp">>, <<"photos">>, <<"photos", "assets">>},
     pages |-> <<>>]

ParserIdle ==
    /\ ServerIdle
    /\ markdown = <<>>
    /\ htmlFile = NoFile
    /\ outputPath = RootPage
    /\ result = <<>>
    /\ prevResult = <<>>
    /\ calls = 0
    /\ imagesToCopy = <<>>

InitBuild ==
    /\ ParserIdle
    /\ ToolsIdle
    /\ \E blog \in {b \in Partial(Slugs, Posts) : \A slug \in DOMAIN b : b[slug] \in PostsAt(slug)},
          projects \in Partial(ProjectSlugs, Projects),
          photos \in Partial(GalleryNames, Galleries) :
         site = [blog |-> blog, blogFiles |-> {"p.j", "a_b_c.j"},
                    projects |-> projects, projectFiles |-> {"v/lib.js"},
                    photos |-> photos]
    /\ dist \in {NoTree, StaleTree}
    /\ feed = {}
    /\ now = StartTime
    /\ builds = 0
    /\ aborts = 0
    /\ edits = 0
    /\ deleted = {}
    /\ touched = {}
    /\ lastBuilt = EmptyContent
    /\ prevBuilt = EmptyContent
    /\ prevFeed = {}

\* The directory of the content tree, where a build has nothing to write.
contentDir == "content"

\* private distDir = 'dist'
distDir == "dist"

\* join(this.distDir, ...): the paths of the tree below dist/ as paths from
\* the project root.
InDist(paths) == {<<distDir>> \o p : p \in paths}

\* One run of build.ts: the constructor, then build().  When
\* cleanupOrphanedFiles throws, the run ends there: nothing has been removed
\* or written but the directories of the constructor.
Build ==
    /\ builds + aborts < MaxBuilds
    /\ IF ForEachThrows(site)
       THEN /\ dist' = ensureDistDir(dist)
            /\ touched' = InDist(ensureDistDir(NoTree).dirs)
            /\ aborts' = aborts + 1
            /\ UNCHANGED <<feed, deleted, prevFeed, prevBuilt, lastBuilt, builds>>
       ELSE /\ \E made \in {ensureDistDir(dist)} :
               \E orphans \in {cleanupOrphanedFiles(made, site, now)} :
               \E pages \in {PagesBeforeFeed(RemoveAll(made, orphans), site, now)} :
                  /\ feed' = buildRSSFeed(pages, feed, site, now)
                  /\ dist' = PagesFromFeed(pages, site)
                  /\ deleted' = orphans
                  /\ \E written \in {PagesFromFeed(
                                        PagesBeforeFeed(ensureDistDir(NoTree), site, now),
                                        site)} :
                       touched' = InDist(orphans \cup written.files \cup written.dirs)
            /\ prevFeed' = feed
            /\ prevBuilt' = lastBuilt
            /\ lastBuilt' = site
            /\ builds' = builds + 1
            /\ UNCHANGED aborts
    /\ imagesToCopy' = <<>>
    /\ now' = now + 1
    /\ UNCHANGED <<markdown, htmlFile, outputPath, result, prevResult, calls, site, edits,
                   request, response, toolVars>>

\* The author changes the content tree to `changed` between two builds.
Edit(changed) ==
    /\ edits < MaxEdits
    /\ site' = changed
    /\ edits' = edits + 1
    /\ now' = now + 1
    /\ UNCHANGED <<markdown, htmlFile, outputPath, result, prevResult, calls, imagesToCopy,
                   dist, feed, builds, aborts, deleted, lastBuilt, prevBuilt, prevFeed,
                   request, response, touched, toolVars>>

\* content/blog/<slug>.md and its sidecar are deleted.
RemovePost ==
    \E slug \in DOMAIN site.blog :
        Edit([site EXCEPT !.blog = Without(@, slug)])

\* content/blog/<slug>.md is written.
AddPost ==
    \E slug \in Slugs \ DOMAIN site.blog :
      \E post \in PostsAt(slug) :
        Edit([site EXCEPT !.blog = With(@, slug, [post EXCEPT !.mtime = now])])

\* The body of content/blog/<slug>.md is rewritten.
RewritePost ==
    \E slug \in DOMAIN site.blog :
      \E body \in {PlainBody, MarkedBody} \ {site.blog[slug].body} :
        Edit([site EXCEPT !.blog[slug].body = body, !.blog[slug].mtime = now])

\* A photo is added to a gallery directory, which takes the current time as mtime.
AddPhoto ==
    \E g \in DOMAIN site.photos :
      \E f \in {PhotoX, PhotoY} \ Range(site.photos[g].files) :
        Edit([site EXCEPT !.photos[g].files = Append(@, f), !.photos[g].mtime = now])

\* A photo is deleted from a gallery directory.
RemovePhoto ==
    \E g \in DOMAIN site.photos :
      \E f \in Range(site.photos[g].files) :
        Edit([site EXCEPT !.photos[g].files = SelectSeq(@, LAMBDA x : x # f),
                          !.photos[g].mtime = now])

NextBuild == Build \/ RemovePost \/ AddPost \/ RewritePost \/ AddPhoto \/ RemovePhoto

SpecBuild == InitBuild /\ [][NextBuild]_vars

\* One gallery whose directory lists up to MaxPhotos of the names below, in
\* any order, and nothing else to build.
MaxPhotos == 3
Listings ==
    UNION {{q \in [1..n -> {PhotoX, PhotoY, PhotoXPng, Notes}] :
               \A i, j \in 1..n : i # j => q[i] # q[j]} : n \in 0..MaxPhotos}

InitGallery ==
    /\ ParserIdle
    /\ ToolsIdle
    /\ \E files \in Listings :
         site = [blog |-> <<>>, blogFiles |-> {}, projects |-> <<>>, projectFiles |-> {},
                 photos |-> [g \in GalleryNames |->
                               [files |-> files, meta |-> NoSidecar,
                                mtime |-> 2 * TicksPerSecond + 1]]]
    /\ dist = NoTree
    /\ feed = {}
    /\ now = StartTime
    /\ builds = 0
    /\ aborts = 0
    /\ edits = 0
    /\ deleted = {}
    /\ touched = {}
    /\ lastBuilt = EmptyContent
    /\ prevBuilt = EmptyContent
    /\ prevFeed = {}

SpecGallery == InitGallery /\ [][Build]_vars

-----------------------------------------------------------------------------
(* The local file server, src/server.ts *)

\* A request's url.pathname: its segments, each the characters of a name,
\* and whether it ends with "/".  "/" is no segment and the slash.
Pathname(path, slash) == [path |-> path, slash |-> slash]

\* The segments as the path of a file below dist/.
FilePath(path) == [k \in 1..Len(path) |-> Concat(path[k])]

\* filePath.includes('.')
IncludesDot(path) == \E k \in 1..Len(path) : \E j \in 1..Len(path[k]) : path[k][j] = "."

NotFound == [status |-> 404, file |-> <<>>]

\* file.exists() ? new Response(file) : new Response("Not Found", 404)
Respond(fs, file) == IF file \in fs.files THEN [status |-> 200, file |-> file] ELSE NotFound

\* fetch(request) over the tree fs.
fetch(fs, req) ==
    IF req.slash THEN Respond(fs, FilePath(req.path) \o <<"index.html">>)
    ELSE IF ~IncludesDot(req.path)
    THEN IF FilePath(req.path) \o <<"index.html">> \in fs.files
         THEN [status |-> 200, file |-> FilePath(req.path) \o <<"index.html">>]
         ELSE Respond(fs, [FilePath(req.path) EXCEPT ![Len(req.path)] = @ \o ".html"])
    ELSE Respond(fs, FilePath(req.path))

\* The hrefs of the pages of a build of c: the navigation routes.
Routes(c, clock) ==
    {<<>>, <<<<"updates">>>>, <<<<"photos">>>>, <<<<"about-this-site">>>>}
    \cup {<<<<"updates">>, <<post.slug>>>> : post \in getBlogPosts(c)}
    \cup {<<<<"photos">>, <<gallery.name>>>> : gallery \in getPhotoGalleries(c, clock)}
    \cup UNION {{<<<<"photos">>, <<gallery.name>>,
                    getImageNameWithoutExt(gallery.images[k])>>
                    : k \in 1..Len(gallery.images)}
                   : gallery \in getPhotoGalleries(c, clock)}

\* The requests the model sends: the routes with and without a closing
\* slash, three files by name, and a path of nothing.
Requests(c, clock) ==
    ({Pathname(route, slash) : route \in Routes(c, clock), slash \in BOOLEAN}
        \ {Pathname(<<>>, FALSE)})
    \cup {Pathname(<<file>>, FALSE)
            : file \in {<<"feed", ".", "xml">>, <<"styles", ".", "css">>, <<"nope">>}}

Fetch ==
    /\ \E req \in Requests(site, now) :
         /\ request' = req
         /\ response' = fetch(dist, req)
    /\ UNCHANGED <<markdown, htmlFile, outputPath, result, prevResult, calls, imagesToCopy,
                   site, dist, feed, now, builds, aborts, edits, deleted, lastBuilt,
                   prevBuilt, prevFeed, touched, toolVars>>

\* A site of one post and one gallery, built and served.
PhotoAB == <<"a", ".", "b", ".", "j", "p", "g">>
InitServe ==
    /\ ParserIdle
    /\ ToolsIdle
    /\ \E files \in {<<>>, <<PhotoX>>, <<PhotoAB>>, <<PhotoX, PhotoAB>>, <<PhotoY, PhotoX>>} :
         site = [blog |-> [slug \in {"a"} |->
                             [body |-> PlainBody, meta |-> NoSidecar, mtime |-> PostMtime]],
                 blogFiles |-> {}, projects |-> <<>>, projectFiles |-> {},
                 photos |-> [g \in GalleryNames |->
                               [files |-> files, meta |-> NoSidecar,
                                mtime |-> 2 * TicksPerSecond + 1]]]
    /\ dist = NoTree
    /\ feed = {}
    /\ now = StartTime
    /\ builds = 0
    /\ aborts = 0
    /\ edits = 0
    /\ deleted = {}
    /\ touched = {}
    /\ lastBuilt = EmptyContent
    /\ prevBuilt = EmptyContent
    /\ prevFeed = {}

NextServe == Build \/ Fetch
SpecServe == InitServe /\ [][NextServe]_vars

-----------------------------------------------------------------------------
(* The photo import, src/process-photos.ts *)

\* supportedExtensions
SupportedExtensions ==
    { <<".", "j", "p", "g">>, <<".", "j", "p", "e", "g">>,
      <<".", "J", "P", "G">>, <<".", "J", "P", "E", "G">> }

\* files.filter(file => this.supportedExtensions.includes(extname(file)))
JpegFiles(files) == SelectSeq(files, LAMBDA file : Extname(file) \in SupportedExtensions)

\* file.replace(/\.(JPG|JPEG)$/i, match => match.toLowerCase())
NormalizedFileName(file) ==
    IF \E e \in {<<".", "j", "p", "g">>, <<".", "j", "p", "e", "g">>} :
          EndsWith(ToLowerCase(file), e)
    THEN SubSeq(file, 1, Len(file) - Len(Extname(file))) \o ToLowerCase(Extname(file))
    ELSE file

\* content/photos/<galleryName> after mkdirSync and the copies of the files
\* at the positions `done` of jpegFiles: a name already there is overwritten.
Imported(c, galleryName, jpegFiles, done, clock) ==
    LET old == IF galleryName \in DOMAIN c.photos THEN c.photos[galleryName].files ELSE <<>>
        names == [k \in 1..Len(jpegFiles) |-> NormalizedFileName(jpegFiles[k])]
        fresh == {k \in done : names[k] \notin Range(old)
                                 /\ \A j \in done : j < k => names[j] # names[k]}
    IN  [c EXCEPT !.photos =
            With(@, galleryName,
                 [files |-> old \o SelectSeq([k \in 1..Len(names) |->
                                                 IF k \in fresh THEN names[k] ELSE <<>>],
                                              LAMBDA name : name # <<>>),
                  meta |-> IF galleryName \in DOMAIN c.photos
                           THEN c.photos[galleryName].meta ELSE NoSidecar,
                  mtime |-> clock])]

\* main(): the usage exit, then processPhotos; an exception it throws ends
\* the process with status 1, a return with status 0.  A file whose resize
\* or copy throws is reported and skipped.
ProcessPhotos ==
    /\ exitCode = -1
    /\ IF ~source.given \/ ~source.exists
       THEN exitCode' = 1 /\ UNCHANGED site
       ELSE \E jpegFiles \in {JpegFiles(source.files)} :
              \E done \in SUBSET (1..Len(jpegFiles)) :
                 /\ site' = Imported(site, "g", jpegFiles, done, now)
                 /\ exitCode' = 0
    /\ UNCHANGED <<markdown, htmlFile, outputPath, result, prevResult, calls, imagesToCopy,
                   dist, feed, now, builds, aborts, edits, deleted, lastBuilt, prevBuilt,
                   prevFeed, request, response, touched, source, magick, themeVars,
                   yamlVars>>

\* The source directories of the model: up to MaxPhotos of these names.
PhotoZ == <<"z", ".", "J", "P", "G">>
PhotoW == <<"w", ".", "J", "p", "g">>
Sources ==
    UNION {{q \in [1..n -> {PhotoX, PhotoZ, PhotoW, Notes}] :
               \A i, j \in 1..n : i # j => q[i] # q[j]} : n \in 0..MaxPhotos}

InitImport ==
    /\ ParserIdle
    /\ BuilderIdle
    /\ BrowserIdle
    /\ YamlIdle
    /\ source \in {NoSource, [given |-> TRUE, exists |-> FALSE, files |-> <<>>]}
                 \cup {[given |-> TRUE, exists |-> TRUE, files |-> files] : files \in Sources}
    /\ magick \in BOOLEAN
    /\ exitCode = -1

SpecImport == InitImport /\ [][ProcessPhotos]_vars

-----------------------------------------------------------------------------
(* The client script, dist/script.js as buildScript writes it *)

MaxEvents == 5        \* page loads and theme toggle clicks

\* The rest of the system while the browser runs the script.
BrowserFrame ==
    UNCHANGED <<markdown, htmlFile, outputPath, result, prevResult, calls, imagesToCopy,
                site, dist, feed, now, builds, aborts, edits, deleted, lastBuilt,
                prevBuilt, prevFeed, request, response, touched, importVars,
                yamlVars>>

\* A theme the script leaves as it finds it.
SameTheme(currentTheme) == currentTheme

\* const newTheme = currentTheme === 'dark' ? 'light' : 'dark'
NewTheme(currentTheme) == IF currentTheme = "dark" THEN "light" ELSE "dark"

\* The script runs on a freshly loaded page: savedTheme, else the system
\* preference.  The new document has its menu closed.
LoadPage ==
    /\ loads + clicks < MaxEvents
    /\ dataTheme' = IF storedTheme # "" THEN storedTheme
                    ELSE IF systemPrefersDark THEN "dark" ELSE "light"
    /\ menuActive' = FALSE
    /\ loads' = loads + 1
    /\ UNCHANGED <<storedTheme, systemPrefersDark, clicks>>
    /\ BrowserFrame

\* A click on #theme-toggle (mobile = FALSE) or on #theme-toggle-mobile:
\* toggleTheme, then the click listener of document, which closes the menu
\* when the target lies outside #nav-toggle and #nav-menu.
ToggleTheme ==
    /\ dataTheme # ""
    /\ loads + clicks < MaxEvents
    /\ \E mobile \in BOOLEAN :
         menuActive' = IF mobile THEN menuActive ELSE FALSE
    /\ dataTheme' = NewTheme(dataTheme)
    /\ storedTheme' = NewTheme(dataTheme)
    /\ clicks' = clicks + 1
    /\ UNCHANGED <<systemPrefersDark, loads>>
    /\ BrowserFrame

\* A click on #nav-toggle.
ToggleMenu ==
    /\ dataTheme # ""
    /\ menuActive' = ~menuActive
    /\ UNCHANGED <<storedTheme, dataTheme, systemPrefersDark, loads, clicks>>
    /\ BrowserFrame

\* A click outside #nav-toggle and #nav-menu: the click listener of document.
ClickOutside ==
    /\ dataTheme # ""
    /\ menuActive' = FALSE
    /\ UNCHANGED <<storedTheme, dataTheme, systemPrefersDark, loads, clicks>>
    /\ BrowserFrame

\* The user changes the colour scheme of the system.
ChangePreference ==
    /\ systemPrefersDark' = ~systemPrefersDark
    /\ UNCHANGED <<storedTheme, dataTheme, menuActive, loads, clicks>>
    /\ BrowserFrame

InitBrowser ==
    /\ ParserIdle
    /\ BuilderIdle
    /\ ImporterIdle
    /\ YamlIdle
    /\ storedTheme \in {"", "dark", "light"}
    /\ dataTheme = ""
    /\ systemPrefersDark \in BOOLEAN
    /\ menuActive = FALSE
    /\ loads = 0
    /\ clicks = 0

NextBrowser == LoadPage \/ ToggleTheme \/ ToggleMenu \/ ClickOutside \/ ChangePreference
SpecBrowser == InitBrowser /\ [][NextBrowser]_vars

-----------------------------------------------------------------------------
(* SimpleYamlParser.parseSimple *)

\* String.prototype.trim over the characters of a line.
RECURSIVE Trim(_)
Trim(line) ==
    IF line = <<>> THEN <<>>
    ELSE IF line[1] = " " THEN Trim(Tail(line))
    ELSE IF line[Len(line)] = " " THEN Trim(SubSeq(line, 1, Len(line) - 1))
    ELSE line

\* The values of the mapping: an array of strings, a string, or the Date
\* made of a string.
YamlArray(items) == [kind |-> "array", items |-> items, value |-> ""]
YamlString(value) == [kind |-> "string", items |-> <<>>, value |-> value]
YamlDate(value) == [kind |-> "date", items |-> <<>>, value |-> value]

\* if (currentArrayKey && currentArray.length > 0) { result[currentArrayKey] = ... }
Finalize(st) ==
    IF st.currentArrayKey # "" /\ Len(st.currentArray) > 0
    THEN [result |-> With(st.result, st.currentArrayKey, YamlArray(st.currentArray)),
          currentArray |-> <<>>, currentArrayKey |-> ""]
    ELSE st

\* One turn of the for loop, on the line `line`.
YamlLine(st, line) ==
    LET trimmed == Trim(line)
        colons == {k \in 1..Len(trimmed) : trimmed[k] = ":"}
        colon == IF colons = {} THEN 0 ELSE CHOOSE k \in colons : \A j \in colons : k <= j
        key == Concat(Trim(SubSeq(trimmed, 1, colon - 1)))
        value == Concat(Trim(SubSeq(trimmed, colon + 1, Len(trimmed))))
    IN  IF trimmed = <<>> \/ trimmed[1] = "#" THEN st
        ELSE IF Len(trimmed) >= 2 /\ trimmed[1] = "-" /\ trimmed[2] = " "
        THEN IF st.currentArrayKey # ""
             THEN [st EXCEPT !.currentArray =
                      Append(@, Concat(Trim(SubSeq(trimmed, 3, Len(trimmed)))))]
             ELSE st
        ELSE IF colon <= 1 THEN Finalize(st)
        ELSE IF key = "published_at"
        THEN [Finalize(st) EXCEPT !.result = With(@, key, YamlDate(value))]
        ELSE IF value = ""
        THEN [Finalize(st) EXCEPT !.currentArrayKey = key, !.currentArray = <<>>]
        ELSE [Finalize(st) EXCEPT !.result = With(@, key, YamlString(value))]

RECURSIVE YamlLoop(_, _)
YamlLoop(st, lines) ==
    IF lines = <<>> THEN st ELSE YamlLoop(YamlLine(st, Head(lines)), Tail(lines))

\* parseSimple(yamlContent), yamlContent given as its lines.
parseSimple(lines) ==
    Finalize(YamlLoop([result |-> <<>>, currentArray |-> <<>>, currentArrayKey |-> ""],
                      lines)).result

ParseSimple ==
    /\ ~parsedMeta.returned
    /\ parsedMeta' = [returned |-> TRUE, result |-> parseSimple(yamlContent)]
    /\ UNCHANGED <<markdown, htmlFile, outputPath, result, prevResult, calls, imagesToCopy,
                   site, dist, feed, now, builds, aborts, edits, deleted, lastBuilt,
                   prevBuilt, prevFeed, request, response, touched, importVars, themeVars,
                   yamlContent>>

\* The sidecar documents of the model: up to MaxYamlLines of these lines.
MaxYamlLines == 3
YamlLines ==
    { <<"a", ":">>, <<"b", ":", " ">>, <<"c", ":", " ", "v">>,
      <<"published_at", ":", " ", "1">>, <<"-", " ", "x">>, <<" ", "-", " ", "y", " ">>,
      <<"#", " ", "z">> }

InitYaml ==
    /\ ParserIdle
    /\ BuilderIdle
    /\ ImporterIdle
    /\ BrowserIdle
    /\ yamlContent \in UNION {[1..n -> YamlLines] : n \in 0..MaxYamlLines}
    /\ parsedMeta = NotParsed

SpecYaml == InitYaml /\ [][ParseSimple]_vars

-----------------------------------------------------------------------------
(* Vocabulary of the claims about the converter *)

\* p occurs in s as a contiguous run of tokens.
IsInfix(p, s) ==
    \E k \in 1..(Len(s) - Len(p) + 1) : SubSeq(s, k, k + Len(p) - 1) = p

Count(s, tok) == Cardinality({k \in 1..Len(s) : s[k] = tok})

Kinds == {"HTMLBLOCK", "CODEBLOCK", "INLINECODE"}
IsPlaceholder(t) == \E kind \in Kinds, n \in Stamps : t = Placeholder(kind, n)

EmphasisTags == {"<strong>", "</strong>", "<em>", "</em>"}

\* The contents of the fenced blocks of a markdown text.
RECURSIVE RawFencesFrom(_, _)
RawFencesFrom(s, i) ==
    IF i > Len(s) THEN {}
    ELSE LET j == FenceMatch(s, i)
         IN  IF j > 0 THEN {SubSeq(s, i + 3, j - 1)} \cup RawFencesFrom(s, j + 3)
             ELSE RawFencesFrom(s, i + 1)

RawFences(md) == RawFencesFrom(md, 1)

\* The markdown text with its fenced blocks and inline code spans cut out.
OutsideCode(md) ==
    InlineCode(FencedCode([text |-> md, html |-> <<>>, code |-> <<>>, inline |-> <<>>,
                           copies |-> <<>>, n |-> 0],
                          [k \in 1..Len(md) |-> k]),
               [k \in 1..Len(md) |-> k]).text

\* The document has emphasis markers, all of them inside code, and nothing
\* else that brings an underscore of its own (a link's target="_blank").
MarkersOnlyInCode(md) ==
    /\ Includes(md, "*") \/ Includes(md, "_")
    /\ ~Includes(OutsideCode(md), "*")
    /\ ~Includes(OutsideCode(md), "_")
    /\ ~Includes(md, "[")

\* The image references ![alt](src) of a markdown text, in order.
RECURSIVE RawImagesFrom(_, _)
RawImagesFrom(s, i) ==
    IF i > Len(s) THEN <<>>
    ELSE LET m == ImageMatch(s, i)
         IN  IF m[2] > 0
             THEN <<[alt |-> SubSeq(s, i + 2, m[1] - 1),
                     src |-> SubSeq(s, m[1] + 2, m[2] - 1)]>> \o RawImagesFrom(s, m[2] + 1)
             ELSE RawImagesFrom(s, i + 1)

RawImages(md) == RawImagesFrom(md, 1)

\* The links [text](url) of a markdown text that are not image references.
RECURSIVE RawLinksFrom(_, _)
RawLinksFrom(s, i) ==
    IF i > Len(s) THEN <<>>
    ELSE LET im == ImageMatch(s, i)
             m == LinkMatch(s, i)
         IN  IF im[2] > 0 THEN RawLinksFrom(s, im[2] + 1)
             ELSE IF m[2] > 0
             THEN <<[text |-> SubSeq(s, i + 1, m[1] - 1),
                     url |-> SubSeq(s, m[1] + 2, m[2] - 1)]>> \o RawLinksFrom(s, m[2] + 1)
             ELSE RawLinksFrom(s, i + 1)

RawLinks(md) == RawLinksFrom(md, 1)

\* A reference to a local image: "./" and an extension other than .html.
IsLocalImage(src) ==
    /\ Len(src) >= 3 /\ src[1] = "." /\ src[2] = "/"
    /\ ToLowerCase(Extname(SubSeq(src, 3, Len(src)))) # <<".", "h", "t", "m", "l">>

LocalImages(md) == SelectSeq(RawImages(md), LAMBDA r : IsLocalImage(r.src))

\* The src the spec gives a local image: one "../" per directory between the
\* page and the output root, then assets/ and the file name.
ExpectedSrc(src, path) ==
    Repeat("../", Len(path) - 2) \o <<"assets/">> \o Basename(SubSeq(src, 3, Len(src)))

ExpectedCopy(src, path) ==
    [source |-> <<"sourceDir/">> \o SubSeq(src, 3, Len(src)),
     dest |-> <<"dist/assets/">> \o Basename(SubSeq(src, 3, Len(src))),
     relativePath |-> ExpectedSrc(src, path)]

\* Level of a markdown heading line (1..4), 0 for any other line.
HeadingLevel(line) ==
    IF \E n \in 1..4 : HeadingLine(line, n) # line
    THEN CHOOSE n \in 1..4 : HeadingLine(line, n) # line
    ELSE 0

IsItemLine(line) == DashItemLine(line) # line \/ NumberItemLine(line) # line
IsQuoteLine(line) == BlockquoteLine(line) # line
IsBlankLine(line) == ParagraphLine(line) = <<>>
IsPlainLine(line) ==
    ~IsBlankLine(line) /\ HeadingLevel(line) = 0 /\ ~IsItemLine(line) /\ ~IsQuoteLine(line)

\* Number of lines of `lines` that satisfy the line predicate given as a set
\* of line indices.
ItemIndices(lines) == {k \in 1..Len(lines) : IsItemLine(lines[k])}
\* A run of list items starts at an item line that no item line precedes.
RunStarts(lines) == {k \in ItemIndices(lines) : k = 1 \/ (k - 1) \notin ItemIndices(lines)}

\* The first token of each <li> of an HTML text, in order.
RECURSIVE ItemHeads(_, _)
ItemHeads(s, i) ==
    IF i > Len(s) THEN <<>>
    ELSE IF s[i] = "<li>" THEN <<At(s, i + 1)>> \o ItemHeads(s, i + 1)
    ELSE ItemHeads(s, i + 1)

\* The first text token of each list-item line of a markdown text, in order.
RECURSIVE RawItemHeads(_, _)
RawItemHeads(lines, k) ==
    IF k > Len(lines) THEN <<>>
    ELSE IF DashItemLine(lines[k]) # lines[k]
         THEN <<DashItemLine(lines[k])[2]>> \o RawItemHeads(lines, k + 1)
    ELSE IF NumberItemLine(lines[k]) # lines[k]
         THEN <<NumberItemLine(lines[k])[2]>> \o RawItemHeads(lines, k + 1)
    ELSE RawItemHeads(lines, k + 1)

\* No code is extracted from the document.
NoCode(md) == ~Includes(md, BT)

-----------------------------------------------------------------------------
(* Claims about the converter *)

\* C1: the text between a pair of triple-backquote fences appears in the
\* output inside one <pre><code>...</code></pre> element exactly as written:
\* no structural rule alters it.
C1_FencedCodeVerbatim ==
    calls >= 1 =>
        \A c \in RawFences(markdown) :
            IsInfix(<<"<pre>", "<code>">> \o c \o <<"</code>", "</pre>">>, result)

\* C2: emphasis markers inside a fenced block or an inline code span are
\* never converted: a document whose markers all lie inside code yields no
\* <strong> and no <em>.
C2_NoEmphasisInCode ==
    (calls >= 1 /\ MarkersOnlyInCode(markdown)) =>
        \A k \in 1..Len(result) : result[k] \notin EmphasisTags

\* A document with * and _ markers inside code only has been converted and
\* the markers are in the output inside a code element.
C2_Witness ==
    /\ calls >= 1
    /\ MarkersOnlyInCode(markdown)
    /\ Includes(result, "<code>")
    /\ Includes(result, "*")
    /\ Includes(result, "_")

\* C3: two calls of parse on the same input return the same HTML, and no
\* placeholder token is left in the returned string, whatever the clock and
\* the random generator produce.
C3_Deterministic ==
    /\ calls >= 1 => \A k \in 1..Len(result) : ~IsPlaceholder(result[k])
    /\ calls >= 2 => result = prevResult

\* C4: a run of k consecutive list-item lines produces exactly one <ul>
\* element holding exactly k <li> items in source order; runs separated by
\* a blank or a non-list line produce separate lists.
C4_ListGrouping ==
    (calls >= 1 /\ NumProtected(markdown, htmlFile, outputPath) = 0) =>
        LET lines == Split(markdown)
        IN  /\ Count(result, "<ul>") = Cardinality(RunStarts(lines))
            /\ Count(result, "</ul>") = Cardinality(RunStarts(lines))
            /\ Count(result, "<li>") = Cardinality(ItemIndices(lines))
            /\ Count(result, "</li>") = Cardinality(ItemIndices(lines))
            /\ ItemHeads(result, 1) = RawItemHeads(lines, 1)

\* The lines "> text" of a markdown text, and the first line of each run.
QuoteIndices(lines) == {k \in 1..Len(lines) : IsQuoteLine(lines[k])}
QuoteStarts(lines) ==
    {k \in QuoteIndices(lines) : k = 1 \/ (k - 1) \notin QuoteIndices(lines)}

\* The text of the quoted line "> text" as the inline rules render it.
QuoteText(line) == Emphasis(SubSeq(line, 3, Len(line)))

RECURSIVE QuoteRun(_, _)
\* The texts of the run of quoted lines that starts at line k, joined by <br>.
QuoteRun(lines, k) ==
    IF (k + 1) \in QuoteIndices(lines)
    THEN QuoteText(lines[k]) \o <<"<br>">> \o QuoteRun(lines, k + 1)
    ELSE QuoteText(lines[k])

\* C26: a run of k consecutive "> text" lines produces exactly one
\* <blockquote> element holding the k texts in order joined by <br>; the
\* element is closed whatever follows the run (a blank line, a paragraph, a
\* list item, the end of the document), and runs separated by another line
\* produce separate elements.
C26_BlockquoteRuns ==
    calls >= 1 =>
        \E lines \in {Split(markdown)} :
            /\ Count(result, "<blockquote>") = Cardinality(QuoteStarts(lines))
            /\ Count(result, "</blockquote>") = Cardinality(QuoteStarts(lines))
            /\ \A k \in QuoteStarts(lines) :
                   IsInfix(<<"<blockquote>">> \o QuoteRun(lines, k) \o <<"</blockquote>">>,
                           result)

\* A document of two quoted lines that end the document, after a paragraph,
\* has been converted to one element with one <br>.
C26_Witness ==
    /\ calls >= 1
    /\ Len(Split(markdown)) = 3
    /\ QuoteIndices(Split(markdown)) = {2, 3}
    /\ Count(result, "<br>") = 1
    /\ result[Len(result)] = "</blockquote>"

\* Number of <p> tokens still open after the first k tokens of s.
OpenParagraphs(s, k) == Count(SubSeq(s, 1, k), "<p>") - Count(SubSeq(s, 1, k), "</p>")

\* C27: the output has balanced paragraph tags for every input: every <p>
\* is followed by its </p> before the next <p>, and no </p> stands without
\* a <p> open before it.
C27_BalancedParagraphs ==
    calls >= 1 =>
        /\ \A k \in 1..Len(result) : OpenParagraphs(result, k) \in {0, 1}
        /\ OpenParagraphs(result, Len(result)) = 0

RECURSIVE RawSpansFrom(_, _)
\* The contents of the inline code spans of a markdown text, in order.
RawSpansFrom(s, i) ==
    IF i > Len(s) THEN <<>>
    ELSE IF InlineMatch(s, i) > 0
         THEN <<SubSeq(s, i + 1, InlineMatch(s, i) - 1)>> \o RawSpansFrom(s, InlineMatch(s, i) + 1)
         ELSE RawSpansFrom(s, i + 1)

RECURSIVE CodeSpansFrom(_, _)
\* The contents of the <code> elements of an HTML text, in order.
CodeSpansFrom(s, i) ==
    IF i > Len(s) THEN <<>>
    ELSE IF s[i] = "<code>" /\ IndexOf(s, "</code>", i + 1) > 0
         THEN <<SubSeq(s, i + 1, IndexOf(s, "</code>", i + 1) - 1)>>
              \o CodeSpansFrom(s, IndexOf(s, "</code>", i + 1) + 1)
         ELSE CodeSpansFrom(s, i + 1)

\* The document protects inline code spans only, and none of them holds a
\* replacement pattern of String.prototype.replace.
SpansOnly(md) ==
    /\ ~IsInfix(<<BT, BT>>, md)
    /\ ~Includes(md, "$")
    /\ ~Includes(md, "!")

\* C28: within one conversion every protected occurrence gets a placeholder
\* of its own, so each occurrence is restored to its own original content,
\* whatever the clock and the random generator return: the <code> elements
\* of the output hold the contents of the document's code spans, in order.
C28_OwnPlaceholder ==
    (calls >= 1 /\ SpansOnly(markdown)) =>
        CodeSpansFrom(result, 1) = RawSpansFrom(markdown, 1)

\* The document "# T", blank line, "B *t*." and its expected conversion.
TitleBody == <<"#", " ", "T", NL, NL, "B", " ", "*", "t", "*", ".">>
TitleBodyHtml ==
    <<"<h1>", "T", "</h1>", NL, NL, "<p>", "B", " ", "<em>", "t", "</em>", ".", "</p>">>

\* C5: a line of 1 to 4 "#" and a space becomes the heading element of that
\* level holding the rest of the line and is never wrapped in <p>; a plain
\* line is wrapped in one paragraph in which *text* becomes <em>text</em>.
C5_HeadingAndParagraph ==
    (calls >= 1 /\ NoCode(markdown)) =>
        LET lines == Split(markdown)
        IN  /\ \A k \in 1..Len(lines) :
                   LET n == HeadingLevel(lines[k])
                   IN  n > 0 =>
                         IsInfix(<<HOpen(n)>> \o SubSeq(lines[k], n + 2, Len(lines[k]))
                                     \o <<HClose(n)>>, result)
            /\ \A k \in 1..Len(result) :
                   /\ result[k] \in HOpens => At(result, k - 1) # "<p>"
                   /\ result[k] \in HCloses => At(result, k + 1) # "</p>"
            /\ Count(result, "<p>") = Cardinality({k \in 1..Len(lines) : IsPlainLine(lines[k])})
            /\ Count(result, "</p>") = Cardinality({k \in 1..Len(lines) : IsPlainLine(lines[k])})
            /\ markdown = TitleBody => result = TitleBodyHtml

\* C6: a local image reference ![alt](./p/name.ext) is emitted with src
\* "../" repeated (segments of the output path - 2) times and then
\* assets/name.ext, and queues exactly one copy record
\* sourceDir/p/name.ext -> dist/assets/name.ext.
C6_ImagePath ==
    (calls = 1 /\ NoCode(markdown)) =>
        LET imgs == LocalImages(markdown)
        IN  /\ \A k \in 1..Len(imgs) :
                   IsInfix(<<"<img src=\"">> \o ExpectedSrc(imgs[k].src, outputPath)
                               \o <<"\" alt=\"">>, result)
            /\ imagesToCopy = [k \in 1..Len(imgs) |-> ExpectedCopy(imgs[k].src, outputPath)]

\* C7: the href of every link and the src of every image with an absolute
\* URL equal the URL written in the markdown, also when it holds "_" or "*".
C7_UrlUnchanged ==
    (calls >= 1 /\ NoCode(markdown)) =>
        /\ \A k \in 1..Len(RawLinks(markdown)) :
               IsInfix(<<"<a href=\"">> \o RawLinks(markdown)[k].url \o <<"\" target=\"">>,
                       result)
        /\ \A k \in 1..Len(RawImages(markdown)) :
               LET src == RawImages(markdown)[k].src
               IN  ~(Len(src) >= 2 /\ src[1] = "." /\ src[2] = "/") =>
                       IsInfix(<<"<img src=\"">> \o src \o <<"\" alt=\"">>, result)

-----------------------------------------------------------------------------
(* Claims about the site builder *)

\* The page of a blog post in the output tree.
PostFile(slug) == <<"updates", slug \o ".html">>

\* The files a build of the content tree c writes, on an empty output tree.
BuiltFiles(c, clock) ==
    PagesFromFeed(PagesBeforeFeed(ensureDistDir(NoTree), c, clock), c).files

\* The files of the managed assets directory that the content tree c refers to.
ReferencedAssets(c) ==
    {<<"assets", Concat(Tail(image.dest))>> : image \in QueuedImages(c)}

\* C8: when a post's source file is there for one build and removed before
\* the next, its page updates/<slug>.html is not in the output tree after
\* that next build, and the sweep of that build deletes no file that the
\* content still present produces.
C8_OrphanCleanup ==
    builds >= 2 =>
        /\ \A slug \in DOMAIN prevBuilt.blog \ DOMAIN lastBuilt.blog :
               PostFile(slug) \notin dist.files
        /\ deleted \cap BuiltFiles(lastBuilt, now) = {}

\* The tree fs holds no file outside the shared assets directory that is not
\* expected, and no directory below the root and outside the shared assets
\* directory that has no entry.
SweptClean(fs, expectedFiles) ==
    /\ \A f \in fs.files : IsPrefix(<<"assets">>, f) \/ f \in expectedFiles
    /\ \A d \in fs.dirs \ {<<>>} : IsPrefix(<<"assets">>, d) \/ Entries(fs, d) # {}

\* C25: in every build, the output tree as the orphan sweep leaves it, before
\* any page is written, holds outside the shared assets directory only files
\* of the expected set computed from the current content, and no empty
\* directory, whatever the depth and the names of its directories.
C25_SweptTree ==
    [][builds' = builds + 1 =>
          SweptClean(RemoveAll(ensureDistDir(dist), deleted'), ExpectedFiles(site, now))]_vars

\* C30: a build over the content of the build before it deletes no file and
\* no directory: the expected set of the sweep holds every path a build
\* writes outside the assets directory.
C30_RebuildFixedPoint ==
    (builds >= 2 /\ prevBuilt = lastBuilt) => deleted = {}

\* C9: the orphan sweep never deletes the managed assets directory nor any
\* file inside it, referenced by the current content or not.
C9_AssetsKept ==
    \A p \in deleted : ~IsPrefix(<<"assets">>, p)

\* A second build has swept orphans away while the assets directory holds a
\* file that the content no longer refers to.
C9_Witness ==
    /\ builds >= 2
    /\ deleted # {}
    /\ \E f \in dist.files : IsPrefix(<<"assets">>, f) /\ f \notin ReferencedAssets(lastBuilt)
    /\ \E f \in dist.files : f \in ReferencedAssets(prevBuilt) \ ReferencedAssets(lastBuilt)

\* C10: when the site is built again with no change to the content tree,
\* every item of the new feed.xml has the pubDate string that the previous
\* feed.xml held for the same link.
C10_RssStable ==
    (builds >= 2 /\ lastBuilt = prevBuilt) =>
        \A item \in feed :
            \E old \in prevFeed : old.link = item.link /\ old.pubDate = item.pubDate

\* An unchanged site has been built twice, with a post and a gallery that
\* have no published_at of their own and a post whose published_at is no date.
C10_Witness ==
    /\ builds >= 2
    /\ lastBuilt = prevBuilt
    /\ \E slug \in DOMAIN lastBuilt.blog : lastBuilt.blog[slug].meta = NoSidecar
    /\ \E g \in DOMAIN lastBuilt.photos : lastBuilt.photos[g].meta = NoSidecar
    /\ \E item \in feed : item.pubDate = "Invalid Date"
    /\ Cardinality(feed) = 3

\* The link of a post and of a gallery in feed.xml.
PostLink(slug) == <<BaseUrl, "/blog/" \o slug>>
GalleryLink(g) == <<BaseUrl, "/photos/" \o g>>

\* C11: a post or gallery without published_at metadata that has an item in
\* the previous feed.xml keeps the pubDate recorded there, also when its
\* modification time or body has changed since.
C11_RecordedDateKept ==
    builds >= 2 =>
        /\ \A slug \in DOMAIN lastBuilt.blog :
               PublishedAt(lastBuilt.blog[slug].meta) = Undefined =>
                   \A old \in prevFeed :
                       old.link = PostLink(slug) =>
                           \E item \in feed : item.link = old.link /\ item.pubDate = old.pubDate
        /\ \A g \in DOMAIN lastBuilt.photos :
               PublishedAt(lastBuilt.photos[g].meta) = Undefined =>
                   \A old \in prevFeed :
                       old.link = GalleryLink(g) =>
                           \E item \in feed : item.link = old.link /\ item.pubDate = old.pubDate

\* The src attributes of the <img> tags of a page.
ImgSrcs(html) ==
    {SubSeq(html, k + 1, IndexOf(html, "\" alt=\"", k + 1) - 1)
        : k \in {j \in 1..Len(html) : html[j] = "<img src=\""}}

\* The file of the output tree that a src of the form (../)*assets/<name>
\* names.
AssetOf(src) ==
    <<"assets", Concat(SubSeq(src, IndexOf(src, "assets/", 1) + 1, Len(src)))>>

\* C12: after a build, every asset path that an <img> tag emitted for a
\* relative image refers to exists in the assets directory of the output
\* tree.
C12_AssetsExist ==
    builds >= 1 =>
        \A post \in getBlogPosts(lastBuilt) :
            \A src \in ImgSrcs(post.content) : AssetOf(src) \in dist.files

\* The publish date the resolution order gives an item: its sidecar's
\* published_at, else the date of the _Last updated <date>_ marker of its
\* body, else its modification time.
ResolvedDate(meta, body, mtime) ==
    IF PublishedAt(meta) # Undefined THEN PublishedAt(meta)
    ELSE IF LastUpdatedMatch(body) # <<>> THEN NewDate(Concat(LastUpdatedMatch(body)))
    ELSE DateAt(mtime)

\* C13: the publish date of a content item is the first applicable of the
\* sidecar's published_at, the date of the _Last updated <date>_ marker in
\* the body, the modification time; a post without sidecar date whose body
\* holds _Last updated D_ resolves to D.
C13_DateResolution ==
    builds >= 1 =>
        /\ \A post \in getBlogPosts(lastBuilt) :
               post.publishedAt = ResolvedDate(lastBuilt.blog[post.slug].meta,
                                               lastBuilt.blog[post.slug].body,
                                               lastBuilt.blog[post.slug].mtime)
        /\ \A gallery \in getPhotoGalleries(lastBuilt, now) :
               gallery.publishedAt = ResolvedDate(lastBuilt.photos[gallery.name].meta, <<>>,
                                                  lastBuilt.photos[gallery.name].mtime)

\* A sidecar whose published_at is there and is no date.
BadDate(meta) == meta.exists /\ meta.dated /\ NewDate(meta.published_at) = InvalidDate

\* C14: with a malformed sidecar (published_at that is no date,
\* dependencies written as an inline scalar) the build does not abort and
\* the item is built with the defaults: no publish-date override, no
\* dependencies.
C14_MalformedSidecar ==
    /\ aborts = 0
    /\ builds >= 1 =>
          \A post \in getBlogPosts(lastBuilt) :
              BadDate(lastBuilt.blog[post.slug].meta) => post.publishedAt = post.lastUpdated

\* The routes at which the build emits the page of a post and of a gallery.
PostRoute(slug) == "/updates/" \o slug
GalleryRoute(g) == "/photos/" \o g

\* C15: the link and the guid of every RSS item are the base URL followed
\* by the route of the item's page: /updates/<slug> for a post (file
\* updates/<slug>.html), /photos/<gallery> for a gallery.
C15_FeedLinks ==
    builds >= 1 =>
        \A item \in feed :
            /\ item.guid = item.link
            /\ \/ \E post \in getBlogPosts(lastBuilt) :
                     /\ item.link = <<BaseUrl, PostRoute(post.slug)>>
                     /\ PostFile(post.slug) \in dist.files
               \/ \E gallery \in getPhotoGalleries(lastBuilt, now) :
                     /\ item.link = <<BaseUrl, GalleryRoute(gallery.name)>>
                     /\ <<"photos", gallery.name, "index.html">> \in dist.files

\* The file the route of a viewer page is served from.
PageOf(route) == [route EXCEPT ![3] = @ \o ".html"]

\* The viewer page reached from the one at `file` by following next k times.
RECURSIVE FollowNext(_, _)
FollowNext(file, k) ==
    IF k = 0 THEN file ELSE FollowNext(PageOf(dist.pages[file].next), k - 1)

\* C16: after a build, in every gallery with n >= 1 photos in sorted order
\* the viewer page of photo i links to photo (i-1) mod n as previous and to
\* photo (i+1) mod n as next, following next n times from a photo's page
\* returns to it, and previous undoes next.
C16_PhotoRing ==
    builds >= 1 =>
      \A gallery \in getPhotoGalleries(lastBuilt, now) :
        \A i \in 0..(Len(gallery.images) - 1) :
          LET n == Len(gallery.images)
              route == PhotoRoute(gallery, gallery.images[i + 1])
              page == dist.pages[PageOf(route)]
          IN  /\ page.prev = PhotoRoute(gallery, gallery.images[((i + n - 1) % n) + 1])
              /\ page.next = PhotoRoute(gallery, gallery.images[((i + 1) % n) + 1])
              /\ FollowNext(PageOf(route), n) = PageOf(route)
              /\ dist.pages[PageOf(page.next)].prev = route
              /\ dist.pages[PageOf(page.prev)].next = route

\* The names of a listing with one of the extensions jpg, jpeg, png, gif,
\* webp, in either case.
ImagesOf(files) == {f \in Range(files) : IsImageFile(f)}

\* C17: a gallery's photo sequence is the image files of its directory in
\* ascending order, whatever the order of the listing; its preview image
\* is the first of them and its image count their number; a directory
\* without images yields no gallery.
C17_GallerySequence ==
    builds >= 1 =>
      \A g \in DOMAIN lastBuilt.photos :
        LET found == {gallery \in getPhotoGalleries(lastBuilt, now) : gallery.name = g}
            listed == ImagesOf(lastBuilt.photos[g].files)
        IN  IF listed = {}
            THEN found = {} /\ <<"photos", g>> \notin dist.dirs
            ELSE /\ Cardinality(found) = 1
                 /\ \A gallery \in found :
                      /\ Range(gallery.images) = listed
                      /\ Len(gallery.images) = Cardinality(listed)
                      /\ \A i, j \in 1..Len(gallery.images) :
                            i < j => Less(gallery.images[i], gallery.images[j])
                      /\ gallery.previewImage = gallery.images[1]
                      /\ gallery.imageCount = Len(gallery.images)
                      /\ \A i \in 1..Len(gallery.images) :
                            <<"photos", g, Concat(gallery.images[i])>> \in dist.files

\* A build of a gallery whose directory lists its images out of order, with
\* a file that is no image between them.
C17_Witness ==
    /\ builds >= 1
    /\ \E g \in DOMAIN lastBuilt.photos :
         lastBuilt.photos[g].files = <<PhotoY, Notes, PhotoX>>

\* The viewer pages the output tree holds in the directory of a gallery.
ViewersIn(fs, name) ==
    {p \in DOMAIN fs.pages : p \in fs.files /\ Len(p) = 3 /\ p[1] = "photos" /\ p[2] = name}

\* C29: within one gallery every photo gets its own viewer page: after a
\* build each image of the gallery is shown by a viewer page of the gallery
\* directory other than index.html, and the directory holds as many viewer
\* pages as the gallery has images, next to the gallery index.
C29_OwnViewerPage ==
    builds >= 1 =>
      \A gallery \in getPhotoGalleries(lastBuilt, now) :
        /\ \A i \in 1..Len(gallery.images) :
              \E p \in ViewersIn(dist, gallery.name) \ {<<"photos", gallery.name, "index.html">>} :
                  dist.pages[p].image = gallery.images[i]
        /\ Cardinality(ViewersIn(dist, gallery.name)) = Len(gallery.images)
        /\ <<"photos", gallery.name, "index.html">> \in dist.files

\* The page a build emits for a navigation route.
EmittedPage(route) ==
    IF route = <<>> THEN <<"index.html">>
    ELSE IF route \in {<<<<"updates">>>>, <<<<"photos">>>>} THEN FilePath(route) \o <<"index.html">>
    ELSE IF Len(route) = 2 /\ route[1] = <<"photos">> THEN FilePath(route) \o <<"index.html">>
    ELSE [FilePath(route) EXCEPT ![Len(route)] = @ \o ".html"]

\* The last segment has no file extension.
Extensionless(path) == path # <<>> /\ \A j \in 1..Len(path[Len(path)]) : path[Len(path)][j] # "."

\* The answer resp is the one the server owes the request req over the tree
\* fs; after a build, fs is what the build made of the content c.
Answered(req, resp, fs, c, clock, built) ==
    LET path == FilePath(req.path)
        index == path \o <<"index.html">>
        html == [path EXCEPT ![Len(path)] = @ \o ".html"]
    IN  /\ req.slash =>
              resp = IF index \in fs.files THEN [status |-> 200, file |-> index]
                     ELSE NotFound
        /\ ~req.slash /\ Extensionless(req.path) =>
              resp = IF index \in fs.files THEN [status |-> 200, file |-> index]
                     ELSE IF html \in fs.files THEN [status |-> 200, file |-> html]
                     ELSE NotFound
        /\ resp.status = 200 => resp.file \in fs.files
        /\ built /\ ~req.slash /\ req.path \in Routes(c, clock) =>
              resp = [status |-> 200, file |-> EmittedPage(req.path)]
        /\ built /\ req = Pathname(<<>>, TRUE) =>
              resp = [status |-> 200, file |-> EmittedPage(<<>>)]

\* C18: the file server answers a path ending in "/" from <path>index.html,
\* a path whose last segment has no extension from the directory index or
\* from <path>.html, and with 404 when no such file exists; so every
\* navigation route of the pages, asked for after the build, is answered
\* with the page the build emitted for it.
C18_RoutesServed ==
    [][(request' # request \/ response' # response)
          => Answered(request', response', dist', lastBuilt', now', builds' >= 1)]_vars

\* The names between the "/" of a relative path.
RECURSIVE Segments(_)
Segments(p) ==
    IF \A k \in 1..Len(p) : p[k] # "/" THEN <<Concat(p)>>
    ELSE LET k == CHOOSE i \in 1..Len(p) : p[i] = "/" /\ \A j \in 1..(i - 1) : p[j] # "/"
         IN  <<Concat(SubSeq(p, 1, k - 1))>> \o Segments(SubSeq(p, k + 1, Len(p)))

\* The dependencies a project declares that exist below content/projects.
Declared(project, c) ==
    {CleanDependency(project.dependencies[k])
        : k \in {j \in 1..Len(project.dependencies) :
                    Concat(CleanDependency(project.dependencies[j])) \in c.projectFiles}}

\* C19: after a build, every dependency a project's sidecar declares at the
\* relative path p lies at the same relative path p from the project's
\* page dist/projects/<slug>.html, and dependencies of different paths lie
\* at different places.
C19_DependenciesInPlace ==
    builds >= 1 =>
      \A project \in getProjects(lastBuilt) :
        /\ \A p \in Declared(project, lastBuilt) :
              <<"projects">> \o Segments(p) \in dist.files
        /\ Cardinality(copyProjectDependencies(lastBuilt, project.dependencies))
              = Cardinality(Declared(project, lastBuilt))

C21_ImportExit ==
    exitCode # -1 =>
      /\ exitCode = 0 => source.exists /\ JpegFiles(source.files) # <<>>
      /\ ~source.exists => exitCode # 0
      /\ JpegFiles(source.files) = <<>> => exitCode # 0

\* C22: on page load the theme is the stored preference when there is one,
\* else dark when the system prefers dark, else light; a click on a theme
\* toggle flips the theme between dark and light and stores the new value;
\* so the theme displayed equals the value stored last.
C22_ThemePersistence ==
    [][/\ loads' # loads =>
            dataTheme' = IF storedTheme # "" THEN storedTheme
                         ELSE IF systemPrefersDark THEN "dark" ELSE "light"
       /\ clicks' # clicks =>
            /\ {dataTheme, dataTheme'} = {"dark", "light"}
            /\ storedTheme' = dataTheme'
       /\ (dataTheme' # "" /\ storedTheme' # "") => dataTheme' = storedTheme']_vars

\* Clicks and reloads have left a stored theme that differs from the
\* system's preference, and the page shows it.
C22_Witness ==
    /\ loads >= 2
    /\ clicks >= 2
    /\ systemPrefersDark
    /\ storedTheme = "light"
    /\ dataTheme = "light"

\* The lines of a sidecar document that are neither blank nor comments.
Meaningful(lines) ==
    SelectSeq(lines, LAMBDA line : Trim(line) # <<>> /\ Trim(line)[1] # "#")

\* A "- item" line, and its item.
IsYamlItem(line) == Len(Trim(line)) >= 2 /\ Trim(line)[1] = "-" /\ Trim(line)[2] = " "
ItemOf(line) == Concat(Trim(SubSeq(Trim(line), 3, Len(Trim(line)))))

\* A "key:" line with nothing after the colon, and its key.
OpensList(line, key) ==
    /\ ~IsYamlItem(line)
    /\ \E k \in 2..Len(Trim(line)) :
         /\ Trim(line)[k] = ":"
         /\ \A j \in 1..(k - 1) : Trim(line)[j] # ":"
         /\ Concat(Trim(SubSeq(Trim(line), 1, k - 1))) = key
         /\ Trim(SubSeq(Trim(line), k + 1, Len(Trim(line)))) = <<>>

\* The items of the "- item" lines that directly follow line j.
RECURSIVE ItemsAfter(_, _)
ItemsAfter(lines, j) ==
    IF j + 1 <= Len(lines) /\ IsYamlItem(lines[j + 1])
    THEN <<ItemOf(lines[j + 1])>> \o ItemsAfter(lines, j + 1)
    ELSE <<>>

\* C23: a "- item" line is appended only to the list opened by the key line
\* with an empty value that directly precedes it and its fellow items: every
\* list of the mapping holds the items that directly follow a line opening
\* it, and so no item that follows a scalar line or precedes every key.
C23_ItemsOnlyAfterKey ==
    parsedMeta.returned =>
      \A key \in DOMAIN parsedMeta.result :
        parsedMeta.result[key].kind = "array" =>
          \E j \in 1..Len(Meaningful(yamlContent)) :
            /\ OpensList(Meaningful(yamlContent)[j], key)
            /\ parsedMeta.result[key].items = ItemsAfter(Meaningful(yamlContent), j)

\* The items that follow the lines opening the list `key`, in source order.
RECURSIVE ItemsOf(_, _, _)
ItemsOf(lines, key, j) ==
    IF j > Len(lines) THEN <<>>
    ELSE (IF OpensList(lines[j], key) THEN ItemsAfter(lines, j) ELSE <<>>)
             \o ItemsOf(lines, key, j + 1)

\* C24: every key line with an empty value opens a list under its key, and
\* the list is committed at the next key line and at the end of input: the
\* mapping gives each such key exactly the items that followed it, in order
\* (a key that no item followed may be left out of the mapping).
C24_ListsCommitted ==
    parsedMeta.returned =>
      \A j \in 1..Len(Meaningful(yamlContent)) :
        \A key \in {"a", "b"} :
          OpensList(Meaningful(yamlContent)[j], key) =>
            IF ItemsOf(Meaningful(yamlContent), key, 1) = <<>>
            THEN key \in DOMAIN parsedMeta.result =>
                    parsedMeta.result[key] = YamlArray(<<>>)
            ELSE /\ key \in DOMAIN parsedMeta.result
                 /\ parsedMeta.result[key] =
                       YamlArray(ItemsOf(Meaningful(yamlContent), key, 1))

====
